---- MODULE Spec2Model ----
(***************************************************************************)
(* Model of BareEarthReconstructorDialog.run_reconstruction                *)
(* (src/bare_earth_reconstructor.py): the staged pipeline, the fallback    *)
(* chain of every stage, the threshold analysis and the classification     *)
(* expression.  Every call of the raster operation provider                *)
(* (processing.run, QgsRasterCalculator, shutil.copy2) is a nondeterministic*)
(* choice over its outcomes; one action models one stage of the method.    *)
(* A second part follows one call of calculate_raster_percentiles: the     *)
(* choice of the sampling strategy, the sampling loops and the percentile  *)
(* of the collected values.  A third part follows one call of              *)
(* get_pixel_size_and_scale_parameters: the scaled parameters, the         *)
(* question to the user and the spin boxes afterwards, then the buffer     *)
(* distance in pixels and the sigma of each smoothing pass that            *)
(* run_reconstruction derives from them.  A fourth part                    *)
(* follows the dialog of the plugin: the clicks on its Run button, the     *)
(* event loop and the invocations of run_reconstruction they start.        *)
(***************************************************************************)
EXTENDS Integers, Sequences, FiniteSets, Bags, TLC

VARIABLES
    cfg,                    \* the widget values the run has read so far
    failing_stages,         \* stages so far with a provider call that did not deliver
    pc,                     \* the stage run_reconstruction executes next
    result,                 \* "running", "completed" or "aborted"
    abort_cause,            \* why the run was aborted ("" while it is not)
    stages,                 \* the stages started in this run, in order
    attempts,               \* candidate methods tried by the last stage: <<[m, r]>>
    files,                  \* output directory: artifact name -> who wrote its content
    iteration,              \* loop variable of the Gaussian filter loop
    current_dsm_path,       \* input of the next filter pass
    filtered_dsm_path,      \* surface handed to the later stages
    use_residuals,
    residual_layer,
    residual_all_failed,    \* every residual strategy raised (the except at 2785 ran)
    slope_layer,
    curvature_layer,
    texture_variance,
    texture_entropy,
    percentile_absent,      \* some calculate_raster_percentiles call returned None
    stats_results,
    slope_threshold,
    curvature_threshold,
    residual_threshold,
    variance_threshold,
    entropy_threshold,
    use_texture,
    calc_expression,        \* the classification expression that was built
    labels,                 \* the label grid (anthropogenic_features.tif), per pixel
    pixels,                 \* the rasters the late stages write, per pixel
    interpolation_method,
    original_interpolation_method,
    interpolation_success,
    report,                 \* what generate_processing_report is handed
    progress,               \* the last call of update_progress and what had finished by then
    call,                   \* where a call of calculate_raster_percentiles stands
    raster_layer,           \* its raster argument
    percentile,             \* its percentile argument
    numpy,                  \* whether "import numpy" succeeds in this installation
    strategy,               \* the sampling strategy the call took
    chunk,                  \* the tiles the chunked strategy has sampled so far
    values,                 \* the valid values collected, as a bag
    samples_taken,
    target_samples,         \* the sample count a lattice strategy stops at (None: not set)
    sample_factor,          \* the stride of a lattice strategy (None: not set)
    last_column,            \* the last column its outer loop entered (None: none)
    percentile_value,       \* what the call returned (None until it returns a number)
    scaling_call,           \* where a call of get_pixel_size_and_scale_parameters stands
    dsm_layer,              \* its DSM argument
    spinSigma,              \* the spin boxes of the dialog
    spinKernelRadius,
    spinBufferDistance,
    spinFillDistance,
    reply,                  \* the answer to 'Auto-Scale Parameters?'
    scaling_info,           \* what the call returned
    buffer_distance_pixels, \* the buffer distance in pixels (None: not computed)
    sigma_value,            \* spinSigma as run_reconstruction reads it (None: not read)
    gaussian_iterations,    \* spinGaussianIterations as it reads it (0: not read)
    adaptive_sigmas,        \* the sigma of each smoothing pass begun, in millionths
    smoothing_left,         \* whether the loop of the passes was left with break
    dlg,                    \* whether the plugin has created its dialog
    pending_clicks,         \* clicks on buttonRun waiting in the event queue
    active_runs             \* the invocations of run_reconstruction on the call stack

vars == <<cfg, failing_stages, pc, result, abort_cause, stages, attempts, files, iteration,
          current_dsm_path, filtered_dsm_path, use_residuals, residual_layer,
          residual_all_failed, slope_layer, curvature_layer, texture_variance,
          texture_entropy, percentile_absent, stats_results, slope_threshold,
          curvature_threshold, residual_threshold, variance_threshold,
          entropy_threshold, use_texture, calc_expression, labels, pixels,
          interpolation_method, original_interpolation_method,
          interpolation_success, report, progress, call, raster_layer, percentile, numpy,
          strategy, chunk, values, samples_taken, target_samples, sample_factor,
          last_column, percentile_value,
          scaling_call, dsm_layer, spinSigma, spinKernelRadius, spinBufferDistance,
          spinFillDistance, reply, scaling_info, buffer_distance_pixels, sigma_value,
          gaussian_iterations, adaptive_sigmas, smoothing_left, dlg,
          pending_clicks, active_runs>>

\* the variables of a call of calculate_raster_percentiles
PercentileVars ==
    <<call, raster_layer, percentile, numpy, strategy, chunk, values, samples_taken,
      target_samples, sample_factor, last_column, percentile_value>>

\* the variables of a call of get_pixel_size_and_scale_parameters
ScalingVars ==
    <<scaling_call, dsm_layer, spinSigma, spinKernelRadius, spinBufferDistance,
      spinFillDistance, reply, scaling_info, buffer_distance_pixels, sigma_value,
      gaussian_iterations, adaptive_sigmas, smoothing_left>>

\* the smoothing parameters of run_reconstruction and the sigmas of its passes
SmoothingVars == <<sigma_value, gaussian_iterations, adaptive_sigmas, smoothing_left>>

\* the variables of the dialog and its event loop
DialogVars == <<dlg, pending_clicks, active_runs>>

\* the variables of run_reconstruction
RunReconstructionVars ==
    <<cfg, failing_stages, pc, result, abort_cause, stages, attempts, files, iteration,
      current_dsm_path, filtered_dsm_path, use_residuals, residual_layer,
      residual_all_failed, slope_layer, curvature_layer, texture_variance,
      texture_entropy, percentile_absent, stats_results, slope_threshold,
      curvature_threshold, residual_threshold, variance_threshold,
      entropy_threshold, use_texture, calc_expression, labels, pixels,
      interpolation_method, original_interpolation_method,
      interpolation_success, report, progress>>

-----------------------------------------------------------------------------
(* Bounds and values *)

\* largest number of Gaussian filter iterations (spinGaussianIterations) explored
MaxIterations == 2

\* largest number of stages of one run in which a provider call fails (raises,
\* writes no output) or a percentile comes back as None
MaxFailingStages == 2

\* Python's None for an optional number; Some(v) is the number v
None == <<>>
Some(v) == <<v>>
Val(o) == o[1]

\* a layer variable that holds None
NoLayer == "None"
\* a layer object whose isValid() is false
InvalidLayer == "invalid"

\* content of a path that does not exist
Absent == "absent"
\* content left in the output directory before this run started
Stale == "stale"

\* the input DSM (not in the output directory)
InputDsm == "input_dsm"

IterFile(k) ==
    CASE k = 1 -> "filtered_dsm_iter_1.tif"
      [] k = 2 -> "filtered_dsm_iter_2.tif"
      [] OTHER -> "filtered_dsm_iter_n.tif"

Artifacts ==
    { "filtered_dsm.tif", "residuals.tif", "slope.tif", "curvature.tif",
      "texture_variance.tif", "texture_variance_gdal.tif",
      "anthropogenic_features.tif", "selected_features_for_buffering.tif",
      "buffered_anthropogenic.tif", "masked_dsm.tif", "reconstructed_dsm.tif" }
    \cup { IterFile(k) : k \in 1..(MaxIterations - 1) }

isfile(fs, path) == path = InputDsm \/ fs[path] # Absent

\* the rasters of the late stages whose pixels the run is followed through
PixelFiles ==
    { "selected_features_for_buffering.tif", "buffered_anthropogenic.tif",
      "masked_dsm.tif", "reconstructed_dsm.tif" }
\* the pixels of a raster this run has not written (absent, or left by an
\* earlier run)
Unwritten == <<>>

\* outcomes of one provider call: it completes and writes its output; it
\* completes and writes nothing; it raises
ProviderOutcomes == {"ok", "nofile", "raise"}
\* and, where the run inspects the path again after the call has raised:
\* it raises after writing its output
InspectedOutcomes == ProviderOutcomes \cup {"raise_written"}
Raised(o) == o \in {"raise", "raise_written"}
Wrote(o) == o \in {"ok", "raise_written"}

\* the artifact after a provider call with outcome o wrote (or did not) to it
AfterCall(fs, path, o, who) ==
    IF Wrote(o) THEN [fs EXCEPT ![path] = who] ELSE fs

Append2(s, m, r) == Append(s, [m |-> m, r |-> r])

-----------------------------------------------------------------------------
(* The run: start and input validation *)

Methods == {"enhanced", "simple", "grass_fillnulls"}

\* the parameters read when the run starts; the other widgets are read by
\* the stage that uses them and join cfg then:
\*   texture    (checkTextureAnalysis exists and is checked), BOOLEAN
\*   percentile (radioPercentile.isChecked()), BOOLEAN
\*   method     (radioEnhanced / radioSimple / radioGrassFillnulls), Methods
Configurations ==
    [ buffer         : {0, 1},       \* spinBufferDistance: 0, or a distance > 0
      iterations     : {1, MaxIterations},   \* spinGaussianIterations: one pass, or more
      filter_widgets : {FALSE} ]     \* the dialog has no filter checkboxes

\* the dialog with the two filter checkboxes (checkFilterAnthropogenic,
\* checkFilterVegetation), one Gaussian pass
FilterConfigurations ==
    [ buffer         : {0, 1},
      iterations     : {1},
      filter_widgets : {TRUE} ]

\* cfg after the widget w has been read as v
ReadWidget(c, w, v) == c @@ (w :> v)

\* the provider calls of a stage all delivered (calm), or the stage is one
\* more of the failing stages of the run
Disturb(calm) ==
    IF calm
      THEN UNCHANGED failing_stages
      ELSE /\ failing_stages < MaxFailingStages
           /\ failing_stages' = failing_stages + 1

\* the output directory when the run starts: empty, or holding the artifacts
\* an earlier run left there (a run that ended in the outer except, or whose
\* files organize_output_files could not move because they were locked)
EmptyDir == [a \in Artifacts |-> Absent]
UsedDir == [a \in Artifacts |-> Stale]

NoStats == [threshold_method |-> "none"]
NoExpression == [rule |-> "none"]
NoReport == [written |-> FALSE]
\* the progress bar after reset_progress
NoProgress ==
    [step |-> 0, total_steps |-> 0, at |-> "", stages |-> <<>>, passes |-> 0]
NoScalingInfo == [pixel_size |-> 0]

\* a DSM layer as get_pixel_size_and_scale_parameters sees it: the pixel
\* sizes rasterUnitsPerPixelX() and rasterUnitsPerPixelY() return, in
\* thousandths of a map unit, or calls that raise
DsmLayer(x, y, readable) == [x |-> x, y |-> y, readable |-> readable]
NoDsm == DsmLayer(0, 0, FALSE)

InitWith(configurations) ==
    /\ cfg \in configurations
    /\ failing_stages = 0
    /\ files \in {EmptyDir, UsedDir}
    /\ pc = "start"
    /\ result = "running"
    /\ abort_cause = ""
    /\ stages = <<>>
    /\ attempts = <<>>
    /\ iteration = 0
    /\ current_dsm_path = InputDsm
    /\ filtered_dsm_path = InputDsm
    /\ use_residuals = TRUE
    /\ residual_layer = NoLayer
    /\ residual_all_failed = FALSE
    /\ slope_layer = NoLayer
    /\ curvature_layer = NoLayer
    /\ texture_variance = NoLayer
    /\ texture_entropy = NoLayer
    /\ percentile_absent = FALSE
    /\ stats_results = NoStats
    /\ slope_threshold = None
    /\ curvature_threshold = None
    /\ residual_threshold = None
    /\ variance_threshold = None
    /\ entropy_threshold = None
    /\ use_texture = FALSE
    /\ calc_expression = NoExpression
    /\ labels = <<>>
    /\ pixels = [f \in PixelFiles |-> Unwritten]
    /\ interpolation_method = "enhanced"
    /\ original_interpolation_method = "enhanced"
    /\ interpolation_success = FALSE
    /\ report = NoReport
    /\ progress = NoProgress

\* no call of calculate_raster_percentiles is followed pixel by pixel
NoCall ==
    /\ call = "none"
    /\ raster_layer = NoLayer
    /\ percentile = 0
    /\ numpy = TRUE
    /\ strategy = "none"
    /\ chunk = 0
    /\ values = EmptyBag
    /\ samples_taken = 0
    /\ target_samples = None
    /\ sample_factor = None
    /\ last_column = None
    /\ percentile_value = None

\* no call of get_pixel_size_and_scale_parameters is followed
NoScaling ==
    /\ scaling_call = "none"
    /\ dsm_layer = NoDsm
    /\ spinSigma = 0
    /\ spinKernelRadius = 0
    /\ spinBufferDistance = 0
    /\ spinFillDistance = 0
    /\ reply = "none"
    /\ scaling_info = NoScalingInfo
    /\ buffer_distance_pixels = None
    /\ sigma_value = None
    /\ gaussian_iterations = 0
    /\ adaptive_sigmas = <<>>
    /\ smoothing_left = FALSE

\* the dialog and its event loop are not followed
NoDialog ==
    /\ dlg = FALSE
    /\ pending_clicks = 0
    /\ active_runs = <<>>

Init == InitWith(Configurations) /\ NoCall /\ NoScaling /\ NoDialog

\* a run of the dialog that has the filter checkboxes, into an empty output
\* directory
FilterInit ==
    InitWith(FilterConfigurations) /\ NoCall /\ NoScaling /\ NoDialog
    /\ files = EmptyDir

\* a return out of run_reconstruction before the surface is reconstructed,
\* or the outer except at the end of the method
Abort(cause) ==
    /\ pc' = "done"
    /\ result' = "aborted"
    /\ abort_cause' = cause

RunVars == <<pc, result, abort_cause>>

\* a stage order in which slope is calculated before the residuals
NextStageSlopeFirst(s) ==
    CASE s = "start"          -> "smoothing"
      [] s = "smoothing"      -> "slope"
      [] s = "slope"          -> "residual"
      [] s = "residual"       -> "curvature"
      [] s = "curvature"      -> "texture"
      [] s = "texture"        -> "thresholds"
      [] s = "thresholds"     -> "classification"
      [] s = "classification" -> "buffering"
      [] s = "buffering"      -> "masking"
      [] s = "masking"        -> "gapfill"
      [] s = "gapfill"        -> "report"
      [] OTHER                -> "done"

\* the stage order of run_reconstruction: the stage that follows s
NextStage(s) ==
    CASE s = "start"          -> "smoothing"
      [] s = "smoothing"      -> "residual"
      [] s = "residual"       -> "slope"
      [] s = "slope"          -> "curvature"
      [] s = "curvature"      -> "texture"
      [] s = "texture"        -> "thresholds"
      [] s = "thresholds"     -> "classification"
      [] s = "classification" -> "buffering"
      [] s = "buffering"      -> "masking"
      [] s = "masking"        -> "gapfill"
      [] s = "gapfill"        -> "report"
      [] OTHER                -> "done"

Continue(s) ==
    /\ pc' = NextStage(s)
    /\ UNCHANGED <<result, abort_cause>>

\* total_steps = gaussian_iterations + 9
total_steps == cfg.iterations + 9

\* a progress call that reports the step it is about to start as done
UpdateProgressOneAhead(step) ==
    progress' = [step |-> step + 1, total_steps |-> total_steps, at |-> pc,
                 stages |-> stages, passes |-> iteration]

\* self.update_progress(step, total_steps, ...): the step and the total it
\* is handed, with the place of the call (the stage at whose head it
\* stands) and the stages and filter passes that have finished by then
update_progress(step) ==
    progress' = [step |-> step, total_steps |-> total_steps, at |-> pc,
                 stages |-> stages, passes |-> iteration]

\* a validation that never looks at the band statistics
ValidationWithoutStatistics(dsm, statistics) ==
    IF dsm = "unreadable" THEN "input_validation" ELSE ""

\* Why the input checks reject the DSM ("" when they let it pass): no valid
\* layer or no file; minimumValue == maximumValue in the band statistics.
\* When bandStatistics raises, the handler prints and the run goes on.
Validation(dsm, statistics) ==
    IF dsm = "unreadable" THEN "input_validation"
    ELSE IF statistics = "read" /\ dsm = "flat" THEN "no_valid_elevation"
    ELSE ""

\* directory check, input DSM check and the validation of its statistics.
\* The DSM is valid, unreadable or flat (min == max); its band statistics
\* are read or the call raises, which for a DSM that is not flat changes
\* nothing but the console.
ValidateInput ==
    /\ pc = "start"
    /\ UNCHANGED <<PercentileVars, ScalingVars, DialogVars>>
    /\ \E dsm \in {"valid", "unreadable", "flat"}, statistics \in {"read", "raised"} :
          /\ statistics = "raised" => dsm = "flat"
          /\ cfg' = ReadWidget(ReadWidget(cfg, "input_dsm", dsm),
                               "band_statistics", statistics)
          /\ Disturb(statistics = "read")
          /\ IF Validation(dsm, statistics) = ""
               THEN update_progress(0) /\ Continue("start")
               ELSE Abort(Validation(dsm, statistics)) /\ UNCHANGED progress
    /\ UNCHANGED <<stages, attempts, files, iteration,
                   current_dsm_path,
                   filtered_dsm_path, use_residuals, residual_layer,
                   residual_all_failed, slope_layer, curvature_layer,
                   texture_variance, texture_entropy, percentile_absent,
                   stats_results, slope_threshold, curvature_threshold,
                   residual_threshold, variance_threshold, entropy_threshold,
                   use_texture, calc_expression, labels, pixels, interpolation_method,
                   original_interpolation_method, interpolation_success, report>>

-----------------------------------------------------------------------------
(* Step 1: iterative Gaussian filtering, one action per pass *)

FilterTarget(i, n) ==
    IF i = n - 1 THEN "filtered_dsm.tif" ELSE IterFile(i + 1)

\* Method 1 of a pass counts as succeeded: no exception and the output exists
FilterSucceeded(fs, path, o) == ~Raised(o) /\ isfile(fs, path)

GaussianFilterPass ==
    /\ pc = "smoothing"
    /\ update_progress(iteration + 1)
    /\ UNCHANGED <<PercentileVars, ScalingVars, DialogVars>>
    /\ iteration < cfg.iterations
    /\ stages' = IF iteration = 0 THEN Append(stages, "smoothing") ELSE stages
    /\ \E o \in ProviderOutcomes, c \in {"ok", "raise"} :
         LET target == FilterTarget(iteration, cfg.iterations)
             fs1    == AfterCall(files, target, o, "sagang:gaussianfilter")
             saga   == FilterSucceeded(fs1, target, o)
             copied == ~saga /\ c = "ok"
             fs2    == IF copied THEN [fs1 EXCEPT ![target] = "copy"] ELSE fs1
             broke  == (~saga /\ ~copied)
                       \/ (target # current_dsm_path /\ ~isfile(fs2, target))
             last   == iteration + 1 = cfg.iterations
         IN  /\ saga => c = "ok"
             /\ Disturb(o = "ok" /\ c = "ok")
             /\ files' = fs2
             /\ attempts' = IF saga
                              THEN Append2(<<>>, "sagang:gaussianfilter", o)
                              ELSE Append2(Append2(<<>>, "sagang:gaussianfilter", o),
                                           "copy", c)
             /\ IF broke
                  THEN /\ filtered_dsm_path' = InputDsm
                       /\ UNCHANGED <<current_dsm_path, iteration>>
                       /\ Continue("smoothing")
                  ELSE /\ current_dsm_path' = target
                       /\ iteration' = iteration + 1
                       /\ filtered_dsm_path' = IF last THEN target ELSE filtered_dsm_path
                       /\ IF last THEN Continue("smoothing") ELSE UNCHANGED RunVars
    /\ UNCHANGED <<cfg, use_residuals, residual_layer, residual_all_failed,
                   slope_layer, curvature_layer, texture_variance, texture_entropy,
                   percentile_absent, stats_results, slope_threshold,
                   curvature_threshold, residual_threshold, variance_threshold,
                   entropy_threshold, use_texture, calc_expression, labels, pixels,
                   interpolation_method, original_interpolation_method,
                   interpolation_success, report>>

-----------------------------------------------------------------------------
(* Step 2: residuals (original DSM - filtered DSM) *)

ResidualFile == "residuals.tif"

\* The check after the three strategies: the residual channel is used
\* exactly when the file exists and loads
ResidualAvailable(fs) == isfile(fs, ResidualFile)

CalculateResiduals ==
    /\ pc = "residual"
    /\ update_progress(cfg.iterations + 1)
    /\ UNCHANGED <<PercentileVars, ScalingVars, DialogVars>>
    /\ stages' = Append(stages, "residual")
    /\ \E o1 \in InspectedOutcomes, o2 \in InspectedOutcomes,
          o3 \in InspectedOutcomes :
         LET fs1 == AfterCall(files, ResidualFile, o1, "gdal:rastercalculator")
             fs2 == AfterCall(fs1, ResidualFile, o2, "QgsRasterCalculator")
             fs3 == AfterCall(fs2, ResidualFile, o3, "gdal:rastercalculator(temp)")
             a1  == Append2(<<>>, "gdal:rastercalculator", o1)
             a2  == Append2(a1, "QgsRasterCalculator", o2)
             a3  == Append2(a2, "gdal:rastercalculator(temp)", o3)
             tried == IF ~Raised(o1) THEN 1 ELSE IF ~Raised(o2) THEN 2 ELSE 3
             fs  == CASE tried = 1 -> fs1 [] tried = 2 -> fs2 [] OTHER -> fs3
         IN  /\ tried < 2 => o2 = "ok"
             /\ tried < 3 => o3 = "ok"
             /\ Disturb(o1 = "ok")
             /\ attempts' = CASE tried = 1 -> a1 [] tried = 2 -> a2 [] OTHER -> a3
             /\ residual_all_failed' = (tried = 3 /\ Raised(o3))
             /\ files' = fs
             /\ use_residuals' = ResidualAvailable(fs)
             /\ residual_layer' = IF ResidualAvailable(fs) THEN ResidualFile ELSE NoLayer
    /\ Continue("residual")
    /\ UNCHANGED <<cfg, iteration, current_dsm_path, filtered_dsm_path,
                   slope_layer, curvature_layer, texture_variance, texture_entropy,
                   percentile_absent, stats_results, slope_threshold,
                   curvature_threshold, residual_threshold, variance_threshold,
                   entropy_threshold, use_texture, calc_expression, labels, pixels,
                   interpolation_method, original_interpolation_method,
                   interpolation_success, report>>

-----------------------------------------------------------------------------
(* Step 3: slope *)

CalculateSlope ==
    /\ pc = "slope"
    /\ update_progress(cfg.iterations + 2)
    /\ UNCHANGED <<PercentileVars, ScalingVars, DialogVars>>
    /\ stages' = Append(stages, "slope")
    /\ \E o \in ProviderOutcomes :
         LET fs1 == AfterCall(files, "slope.tif", o, "qgis:slope")
         IN  /\ files' = fs1
             /\ Disturb(o = "ok")
             /\ attempts' = Append2(<<>>, "qgis:slope", o)
             /\ IF Raised(o) \/ ~isfile(fs1, "slope.tif")
                  THEN /\ Abort("exception")
                       /\ UNCHANGED slope_layer
                  ELSE /\ Continue("slope")
                       /\ slope_layer' = "slope.tif"
    /\ UNCHANGED <<cfg, iteration, current_dsm_path, filtered_dsm_path,
                   use_residuals, residual_layer, residual_all_failed,
                   curvature_layer, texture_variance, texture_entropy,
                   percentile_absent, stats_results, slope_threshold,
                   curvature_threshold, residual_threshold, variance_threshold,
                   entropy_threshold, use_texture, calc_expression, labels, pixels,
                   interpolation_method, original_interpolation_method,
                   interpolation_success, report>>

-----------------------------------------------------------------------------
(* Step 4: curvature *)

CurvatureFile == "curvature.tif"

\* a last curvature method whose except lacks the return
CurvatureExhaustedContinues == FALSE

\* the except of the last curvature method returns out of run_reconstruction
CurvatureExhaustedReturns == TRUE

\* GRASS and SAGA count as succeeded: no exception, the file exists and loads
CurvatureFileSucceeded(fs, o) == ~Raised(o) /\ isfile(fs, CurvatureFile)

CalculateCurvature ==
    /\ pc = "curvature"
    /\ update_progress(cfg.iterations + 3)
    /\ UNCHANGED <<PercentileVars, ScalingVars, DialogVars>>
    /\ stages' = Append(stages, "curvature")
    /\ \E o1 \in ProviderOutcomes, o2 \in ProviderOutcomes,
          o3 \in ProviderOutcomes :
         LET fs2 == AfterCall(files, CurvatureFile, o2, "grass7:r.slope.aspect")
             fs3 == AfterCall(fs2, CurvatureFile, o3, "sagang:slopeaspectcurvature")
             a1  == Append2(<<>>, "qgis:profilecurvature", o1)
             a2  == Append2(a1, "grass7:r.slope.aspect", o2)
             a3  == Append2(a2, "sagang:slopeaspectcurvature", o3)
             tried == IF ~Raised(o1) THEN 1
                      ELSE IF CurvatureFileSucceeded(fs2, o2) THEN 2 ELSE 3
         IN  /\ tried < 2 => o2 = "ok"
             /\ tried < 3 => o3 = "ok"
             /\ Disturb(o1 = "ok")
             /\ attempts' = CASE tried = 1 -> a1 [] tried = 2 -> a2 [] OTHER -> a3
             /\ files' = CASE tried = 1 -> files [] tried = 2 -> fs2 [] OTHER -> fs3
             /\ CASE tried = 1 ->
                       \* the result of the memory output is taken as it comes
                       /\ curvature_layer' = IF o1 = "ok" THEN "memory:curvature"
                                                          ELSE InvalidLayer
                       /\ Continue("curvature")
                  [] tried = 2 ->
                       /\ curvature_layer' = CurvatureFile
                       /\ Continue("curvature")
                  [] OTHER ->
                       IF CurvatureFileSucceeded(fs3, o3)
                         THEN /\ curvature_layer' = CurvatureFile
                              /\ Continue("curvature")
                         ELSE /\ curvature_layer' = NoLayer
                              /\ IF CurvatureExhaustedReturns
                                   THEN Abort("no_curvature")
                                   ELSE Continue("curvature")
    /\ UNCHANGED <<cfg, iteration, current_dsm_path, filtered_dsm_path,
                   use_residuals, residual_layer, residual_all_failed,
                   slope_layer, texture_variance, texture_entropy,
                   percentile_absent, stats_results, slope_threshold,
                   curvature_threshold, residual_threshold, variance_threshold,
                   entropy_threshold, use_texture, calc_expression, labels, pixels,
                   interpolation_method, original_interpolation_method,
                   interpolation_success, report>>

-----------------------------------------------------------------------------
(* Step 4b: texture analysis (perform_texture_analysis) *)

\* texture_enabled: every branch of the check of the checkbox sets it to True
TextureEnabled(c) == IF c.texture THEN TRUE ELSE TRUE

\* texture_variance.tif and texture_entropy.tif are written by the same
\* method and checked together; one artifact stands for the pair
GrassTextureFile == "texture_variance.tif"
GdalTextureFile == "texture_variance_gdal.tif"

PerformTextureAnalysis ==
    /\ pc = "texture"
    /\ update_progress(cfg.iterations + 4)
    /\ UNCHANGED <<PercentileVars, ScalingVars, DialogVars>>
    /\ stages' = Append(stages, "texture")
    /\ \E t \in BOOLEAN : cfg' = ReadWidget(cfg, "texture", t)
    /\ IF ~TextureEnabled(cfg')
         THEN /\ attempts' = <<>>
              /\ texture_variance' = NoLayer
              /\ texture_entropy' = NoLayer
              /\ UNCHANGED <<files, failing_stages>>
         ELSE \E o1 \in ProviderOutcomes, o2 \in ProviderOutcomes :
                LET fs1 == AfterCall(files, GrassTextureFile, o1, "grass7:r.texture")
                    ok1 == ~Raised(o1) /\ isfile(fs1, GrassTextureFile)
                    fs2 == AfterCall(fs1, GdalTextureFile, o2, "gdal:rastercalculator")
                    ok2 == ~Raised(o2) /\ isfile(fs2, GdalTextureFile)
                    a1  == Append2(<<>>, "grass7:r.texture", o1)
                    a2  == Append2(a1, "calculate_texture_alternative", o2)
                IN  /\ ok1 => o2 = "ok"
                    /\ Disturb(o1 = "ok")
                    /\ attempts' = IF ok1 THEN a1 ELSE a2
                    /\ files' = IF ok1 THEN fs1 ELSE fs2
                    /\ texture_variance' = IF ok1 THEN GrassTextureFile
                                           ELSE IF ok2 THEN GdalTextureFile ELSE NoLayer
                    /\ texture_entropy' = IF ok1 THEN GrassTextureFile
                                          ELSE IF ok2 THEN GdalTextureFile ELSE NoLayer
    /\ Continue("texture")
    /\ UNCHANGED <<iteration, current_dsm_path, filtered_dsm_path,
                   use_residuals, residual_layer, residual_all_failed,
                   slope_layer, curvature_layer,
                   percentile_absent, stats_results, slope_threshold,
                   curvature_threshold, residual_threshold, variance_threshold,
                   entropy_threshold, use_texture, calc_expression, labels, pixels,
                   interpolation_method, original_interpolation_method,
                   interpolation_success, report>>

-----------------------------------------------------------------------------
(* Step 5a: statistical analysis and thresholds *)

Abs(x) == IF x < 0 THEN 0 - x ELSE x
Max(a, b) == IF a >= b THEN a ELSE b

\* The fixed thresholds of the spin boxes (spinSlope, spinCurvature,
\* spinResidual, spinVarianceThreshold, spinEntropyThreshold)
FixedThresholds ==
    [slope |-> 4, curvature |-> 2, residual |-> 2, variance |-> 1, entropy |-> 1]

\* What calculate_raster_percentiles returns for each channel when it
\* returns a value (the percentiles of the rasters of this run)
PercentileValues ==
    [slope |-> 2, curvature_pos |-> 1, curvature_neg |-> 0 - 2,
     residual_pos |-> 0, residual_neg |-> 0 - 1, variance |-> 1, entropy |-> 1]

Channels == DOMAIN PercentileValues

\* a symmetric threshold that looks at the upper percentile only
SymmetricThresholdUpperOnly(pos_threshold, neg_threshold) ==
    Abs(pos_threshold)

\* max(abs(pos_threshold), abs(neg_threshold)): the residual threshold of
\* analyze_geomorphometric_statistics and the curvature threshold of
\* run_reconstruction in percentile mode
SymmetricThreshold(pos_threshold, neg_threshold) ==
    Max(Abs(pos_threshold), Abs(neg_threshold))

\* the results of the calls of calculate_raster_percentiles: a value or None
PercentileResults ==
    { [ch \in Channels |-> IF ch \in S THEN Some(PercentileValues[ch]) ELSE None] :
        S \in SUBSET Channels }

\* a format that prints None instead of raising (f'{v}')
FormatsAnything(v) == TRUE

\* f'{v:.4f}' raises TypeError for None
Formats(v) == v # None

\* analyze_geomorphometric_statistics returned None
StatsNone == [threshold_method |-> "None"]

\* The percentile calls analyze_geomorphometric_statistics makes before it
\* returns or raises
CallsMade(res_layer, tex_var, tex_ent, p) ==
    {"slope", "curvature_pos", "curvature_neg"}
    \cup (IF res_layer # NoLayer THEN {"residual_pos", "residual_neg"} ELSE {})
    \cup (IF /\ tex_var # NoLayer /\ tex_ent # NoLayer
             /\ (res_layer # NoLayer =>
                    p["residual_pos"] # None /\ p["residual_neg"] # None)
            THEN {"variance", "entropy"} ELSE {})

\* analyze_geomorphometric_statistics in percentile mode; p holds the
\* results of its percentile calls
AnalyzeStatistics(c, res_layer, tex_var, tex_ent, p) ==
    LET have_texture == tex_var # NoLayer /\ tex_ent # NoLayer
        residual_raises ==
            res_layer # NoLayer
            /\ (p["residual_pos"] = None \/ p["residual_neg"] = None)
        residual_thr ==
            IF res_layer # NoLayer /\ ~residual_raises
              THEN Some(SymmetricThreshold(Val(p["residual_pos"]),
                                           Val(p["residual_neg"])))
              ELSE None
        variance_thr == IF have_texture THEN p["variance"] ELSE None
        entropy_thr  == IF have_texture THEN p["entropy"] ELSE None
        texture_print_raises ==
            have_texture /\ (~Formats(variance_thr) \/ ~Formats(entropy_thr))
        use_tex == IF have_texture THEN TRUE ELSE c.texture
        summary_raises ==
            \/ ~Formats(p["slope"])
            \/ ~Formats(p["curvature_pos"])
            \/ ~Formats(p["curvature_neg"])
            \/ use_tex /\ (~Formats(variance_thr) \/ ~Formats(entropy_thr))
    IN  IF residual_raises \/ texture_print_raises \/ summary_raises
          THEN StatsNone
          ELSE [ slope_threshold         |-> p["slope"],
                 curvature_pos_threshold |-> p["curvature_pos"],
                 curvature_neg_threshold |-> p["curvature_neg"],
                 curvature_threshold     |-> None,
                 residual_threshold      |-> residual_thr,
                 use_residuals           |-> res_layer # NoLayer,
                 variance_threshold      |-> variance_thr,
                 entropy_threshold       |-> entropy_thr,
                 use_texture             |-> use_tex,
                 threshold_method        |-> "percentile" ]

\* the stats_results built from the spin boxes (fixed mode and fixed fallback)
FixedStats(method, use_tex) ==
    [ slope_threshold         |-> Some(FixedThresholds.slope),
      curvature_pos_threshold |-> Some(FixedThresholds.curvature),
      curvature_neg_threshold |-> Some(0 - FixedThresholds.curvature),
      curvature_threshold     |-> None,
      residual_threshold      |-> Some(FixedThresholds.residual),
      use_residuals           |-> FALSE,
      variance_threshold      |-> Some(FixedThresholds.variance),
      entropy_threshold       |-> Some(FixedThresholds.entropy),
      use_texture             |-> use_tex,
      threshold_method        |-> method ]

SetFixedThresholds ==
    /\ slope_threshold' = Some(FixedThresholds.slope)
    /\ curvature_threshold' = Some(FixedThresholds.curvature)
    /\ residual_threshold' = Some(FixedThresholds.residual)
    /\ variance_threshold' = Some(FixedThresholds.variance)
    /\ entropy_threshold' = Some(FixedThresholds.entropy)

ThresholdAnalysis ==
    /\ pc = "thresholds"
    /\ update_progress(cfg.iterations + 5)
    /\ UNCHANGED <<PercentileVars, ScalingVars, DialogVars>>
    /\ stages' = Append(stages, "thresholds")
    /\ attempts' = <<>>
    /\ \E m \in BOOLEAN : cfg' = ReadWidget(cfg, "percentile", m)
    /\ LET layers_valid == texture_variance # NoLayer /\ texture_entropy # NoLayer
           res_arg == IF use_residuals THEN residual_layer ELSE NoLayer
       IN  /\ use_texture' = layers_valid
           /\ IF cfg'.percentile
                THEN \E p \in PercentileResults :
                       LET made == CallsMade(res_arg, texture_variance, texture_entropy, p)
                           \* a curvature layer that is no layer object makes
                           \* calculate_raster_percentiles raise inside the analysis
                           st == IF curvature_layer \in {NoLayer, InvalidLayer}
                                   THEN StatsNone
                                   ELSE AnalyzeStatistics(cfg, res_arg, texture_variance,
                                                          texture_entropy, p)
                       IN  /\ \A ch \in Channels \ made : p[ch] = None
                           /\ Disturb(\A ch \in made : p[ch] # None)
                           /\ percentile_absent' = (\E ch \in made : p[ch] = None)
                           /\ IF st = StatsNone
                                THEN /\ SetFixedThresholds
                                     /\ stats_results' = FixedStats("fixed_fallback", layers_valid)
                                     /\ Continue("thresholds")
                                ELSE /\ slope_threshold' = st.slope_threshold
                                     /\ residual_threshold' = st.residual_threshold
                                     /\ variance_threshold' = st.variance_threshold
                                     /\ entropy_threshold' = st.entropy_threshold
                                     /\ IF /\ st.curvature_pos_threshold # None
                                           /\ st.curvature_neg_threshold # None
                                           /\ Formats(st.slope_threshold)
                                           /\ (layers_valid =>
                                                 /\ Formats(st.variance_threshold)
                                                 /\ Formats(st.entropy_threshold))
                                          THEN LET ct == Some(SymmetricThreshold(
                                                               Val(st.curvature_pos_threshold),
                                                               Val(st.curvature_neg_threshold)))
                                               IN  /\ curvature_threshold' = ct
                                                   /\ stats_results' =
                                                        [st EXCEPT !.curvature_threshold = ct]
                                                   /\ Continue("thresholds")
                                          ELSE \* max(abs(None)) or a format of None raises
                                               /\ curvature_threshold' = None
                                               /\ stats_results' = st
                                               /\ Abort("exception")
                ELSE /\ SetFixedThresholds
                     /\ stats_results' = FixedStats("fixed", layers_valid)
                     /\ percentile_absent' = FALSE
                     /\ UNCHANGED failing_stages
                     /\ Continue("thresholds")
    /\ UNCHANGED <<files, iteration, current_dsm_path, filtered_dsm_path,
                   use_residuals, residual_layer, residual_all_failed,
                   slope_layer, curvature_layer, texture_variance, texture_entropy,
                   calc_expression, labels, pixels,
                   interpolation_method, original_interpolation_method,
                   interpolation_success, report>>

-----------------------------------------------------------------------------
(* Step 5: classification (the raster calculator expression) *)

\* the NoData sentinel of a raster band (provider.sourceNoDataValue(1))
NoData == 0 - 99

\* The pixels of the co-registered channels slope, curvature, residual,
\* texture variance and texture entropy, and of the smoothed DSM (dsm); the
\* last four pixels hold NoData in one channel or in all of them
Grid ==
    << [dsm |-> 10, slope |-> 0, curvature |-> 0,     residual |-> 0, variance |-> 0, entropy |-> 0],
       [dsm |-> 11, slope |-> 1, curvature |-> 0,     residual |-> 0, variance |-> 2, entropy |-> 0],
       [dsm |-> 12, slope |-> 3, curvature |-> 1,     residual |-> 1, variance |-> 0, entropy |-> 2],
       [dsm |-> 13, slope |-> 5, curvature |-> 0,     residual |-> 0, variance |-> 2, entropy |-> 2],
       [dsm |-> 14, slope |-> 1, curvature |-> 0 - 3, residual |-> 0, variance |-> 0, entropy |-> 0],
       [dsm |-> 15, slope |-> 1, curvature |-> 0,     residual |-> 3, variance |-> 0, entropy |-> 0],
       [dsm |-> 16, slope |-> 3, curvature |-> 0,     residual |-> 0, variance |-> 0, entropy |-> 0],
       [dsm |-> 17, slope |-> 5, curvature |-> NoData, residual |-> 0, variance |-> 0, entropy |-> 0],
       [dsm |-> 18, slope |-> 5, curvature |-> 0,     residual |-> NoData, variance |-> 0, entropy |-> 0],
       [dsm |-> 19, slope |-> 5, curvature |-> 0,     residual |-> 0, variance |-> 2, entropy |-> NoData],
       [dsm |-> NoData, slope |-> NoData, curvature |-> NoData, residual |-> NoData,
        variance |-> NoData, entropy |-> NoData] >>

\* slope, curvature or residual exceeds its bound
ExceedsBounds(px, res, ts, tc, tr) ==
    \/ px.slope > ts
    \/ px.curvature > tc
    \/ px.curvature < 0 - tc
    \/ res /\ (px.residual > tr \/ px.residual < 0 - tr)

\* a texture rule that asks for high variance and high entropy together
TextureRuleBothTextures(px, res, ts, tc, tr, tv, te) ==
    IF /\ (px.variance > tv /\ px.entropy > te)
       /\ px.slope <= ts
       /\ px.curvature <= tc
       /\ px.curvature >= 0 - tc
       /\ (res => (px.residual <= tr /\ px.residual >= 0 - tr))
      THEN 1
      ELSE IF ExceedsBounds(px, res, ts, tc, tr) THEN 2 ELSE 0

\* 3-class formula WITH texture rasters
TextureRule(px, res, ts, tc, tr, tv, te) ==
    IF /\ (px.variance > tv \/ px.entropy > te)
       /\ px.slope <= ts
       /\ px.curvature <= tc
       /\ px.curvature >= 0 - tc
       /\ (res => (px.residual <= tr /\ px.residual >= 0 - tr))
      THEN 1
      ELSE IF ExceedsBounds(px, res, ts, tc, tr) THEN 2 ELSE 0

\* 3-class formula WITHOUT texture rasters: slope <= slope_threshold/2 and
\* abs(residual) <= residual_threshold/2 (halves compared exactly)
ProxyRule(px, res, ts, tc, tr) ==
    IF /\ 2 * px.slope <= ts
       /\ (res => 2 * Abs(px.residual) <= tr)
      THEN 1
      ELSE IF ExceedsBounds(px, res, ts, tc, tr) THEN 2 ELSE 0

\* a binary formula that leaves the residual term out
BinaryRuleWithoutResidual(px, res, ts, tc, tr) ==
    IF ExceedsBounds(px, FALSE, ts, tc, tr) THEN 1 ELSE 0

\* binary formula: the boolean expression evaluates to 1 or 0
BinaryRule(px, res, ts, tc, tr) ==
    IF ExceedsBounds(px, res, ts, tc, tr) THEN 1 ELSE 0

\* the branch that builds calc_expression
SelectRule(use_tex, layers_available) ==
    IF use_tex /\ layers_available THEN "texture"
    ELSE IF use_tex /\ ~layers_available THEN "proxy"
    ELSE "binary"

\* the thresholds formatted into the expression of a rule
ThresholdsUsed(rule, res, ts, tc, tr, tv, te) ==
    <<ts, tc>> \o (IF res THEN <<tr>> ELSE <<>>)
               \o (IF rule = "texture" THEN <<tv, te>> ELSE <<>>)

HasNone(seq) == \E i \in DOMAIN seq : seq[i] = None

\* a set of entries that leaves the residual channel out
BoundChannelsWithoutResidual(rule, res) ==
    {"slope", "curvature"}
        \cup (IF rule = "texture" THEN {"variance", "entropy"} ELSE {})

\* the QgsRasterCalculatorEntry list handed to the calculator: the channels
\* bound to the expression
BoundChannels(rule, res) ==
    {"slope", "curvature"}
        \cup (IF res THEN {"residual"} ELSE {})
        \cup (IF rule = "texture" THEN {"variance", "entropy"} ELSE {})

\* the value of the expression at one pixel
Formula(e, px) ==
    LET ts == Val(e.thresholds[1])
        tc == Val(e.thresholds[2])
        tr == IF e.residual THEN Val(e.thresholds[3]) ELSE 0
        k  == IF e.residual THEN 3 ELSE 2
    IN  CASE e.rule = "texture" ->
               TextureRule(px, e.residual, ts, tc, tr,
                           Val(e.thresholds[k + 1]), Val(e.thresholds[k + 2]))
          [] e.rule = "proxy" -> ProxyRule(px, e.residual, ts, tc, tr)
          [] OTHER -> BinaryRule(px, e.residual, ts, tc, tr)

\* processCalculation at one pixel: NoData where a bound channel holds
\* NoData, the value of the expression elsewhere
Evaluate(e, px) ==
    IF \E ch \in BoundChannels(e.rule, e.residual) : px[ch] = NoData
      THEN NoData
      ELSE Formula(e, px)

LabelFile == "anthropogenic_features.tif"

ClassifyUnchanged ==
    UNCHANGED <<cfg, iteration, current_dsm_path, filtered_dsm_path,
                residual_all_failed, slope_layer, curvature_layer,
                texture_variance, texture_entropy, percentile_absent,
                stats_results, slope_threshold, curvature_threshold,
                residual_threshold, interpolation_method,
                original_interpolation_method, interpolation_success, report,
                use_residuals, residual_layer>>

IdentifyFeatures ==
    /\ pc = "classification"
    /\ update_progress(cfg.iterations + 6)
    /\ UNCHANGED <<PercentileVars, ScalingVars, DialogVars>>
    /\ stages' = Append(stages, "classification")
    /\ attempts' = <<>>
    /\ variance_threshold' = stats_results.variance_threshold
    /\ entropy_threshold' = stats_results.entropy_threshold
    /\ use_texture' = stats_results.use_texture
    /\ UNCHANGED pixels
    /\ ClassifyUnchanged
    /\ IF slope_layer \in {NoLayer, InvalidLayer}
          \/ curvature_layer \in {NoLayer, InvalidLayer}
         THEN \* "Slope/Curvature layer could not be loaded!"
              /\ Abort("exception")
              /\ UNCHANGED <<calc_expression, labels, files, failing_stages>>
         ELSE LET layers_available ==
                      texture_variance # NoLayer /\ texture_entropy # NoLayer
                  rule == SelectRule(stats_results.use_texture, layers_available)
                  res  == use_residuals /\ residual_layer # NoLayer
                  used == ThresholdsUsed(rule, res, slope_threshold,
                                         curvature_threshold, residual_threshold,
                                         stats_results.variance_threshold,
                                         stats_results.entropy_threshold)
                  e    == [rule |-> rule, residual |-> res, thresholds |-> used]
                  \* slope_threshold / 2 and residual_threshold / 2 raise for None
                  halves_raise ==
                      rule = "proxy"
                      /\ (slope_threshold = None \/ (res /\ residual_threshold = None))
              IN  IF halves_raise
                    THEN /\ Abort("exception")
                         /\ UNCHANGED <<calc_expression, labels, files, failing_stages>>
                    ELSE /\ calc_expression' = e
                         /\ \E o \in {"ok", "nofile", "raise"} :
                              LET parsed == ~HasNone(used)
                                  wrote  == parsed /\ Wrote(o)
                                  fs1    == IF wrote
                                              THEN [files EXCEPT ![LabelFile] = "QgsRasterCalculator"]
                                              ELSE files
                              IN  /\ ~parsed => o = "raise"
                                  /\ Disturb(o = "ok")
                                  /\ files' = fs1
                                  /\ IF Raised(o) \/ ~isfile(fs1, LabelFile)
                                       THEN /\ Abort("exception")
                                            /\ UNCHANGED labels
                                       ELSE /\ labels' = IF wrote
                                                           THEN [i \in DOMAIN Grid |-> Evaluate(e, Grid[i])]
                                                           ELSE <<>>
                                            /\ Continue("classification")

-----------------------------------------------------------------------------
(* Step 6: buffering of the selection mask *)

SelectedFile == "selected_features_for_buffering.tif"
BufferedFile == "buffered_anthropogenic.tif"

LateUnchanged ==
    UNCHANGED <<iteration, current_dsm_path, filtered_dsm_path,
                use_residuals, residual_layer, residual_all_failed,
                slope_layer, curvature_layer, texture_variance, texture_entropy,
                percentile_absent, stats_results, slope_threshold,
                curvature_threshold, residual_threshold, variance_threshold,
                entropy_threshold, use_texture, calc_expression, labels>>

\* what the two filter checkboxes can read as: their state
\* (checkFilterAnthropogenic, checkFilterVegetation), or TRUE and FALSE
\* when the dialog has no such widgets (hasattr fails)
FilterFlags(c) ==
    IF c.filter_widgets
      THEN [anthropogenic : BOOLEAN, vegetation : BOOLEAN]
      ELSE {[anthropogenic |-> TRUE, vegetation |-> FALSE]}

\* a no-buffer path that selects the vegetation class for the
\* anthropogenic-only setting
NoBufferFormulaVegetationForAnthropogenic(anthro, veg) ==
    IF anthro /\ veg THEN "A > 0"
    ELSE IF anthro /\ ~veg THEN "A > 0 AND A <= 1"
    ELSE IF ~anthro /\ veg THEN "A > 0 AND A <= 1"
    ELSE "0"

\* the formula of the no-buffer path
NoBufferFormula(anthro, veg) ==
    IF anthro /\ veg THEN "A > 0"
    ELSE IF anthro /\ ~veg THEN "A > 1"
    ELSE IF ~anthro /\ veg THEN "A > 0 AND A <= 1"
    ELSE "0"

\* the formula of the extraction that precedes the buffer methods
ExtractionFormula(anthro, veg) ==
    IF anthro /\ veg THEN "A > 0"
    ELSE IF anthro /\ ~veg THEN "A > 1"
    ELSE IF ~anthro /\ veg THEN "A > 0 AND A <= 1"
    ELSE "0"

Bit(b) == IF b THEN 1 ELSE 0

\* a mask formula at one pixel of its input A
EvalFormula(formula, a) ==
    IF a = NoData THEN NoData
    ELSE CASE formula = "A > 0"            -> Bit(a > 0)
           [] formula = "A > 1"            -> Bit(a > 1)
           [] formula = "A > 0 AND A <= 1" -> Bit(a > 0 /\ a <= 1)
           [] OTHER                        -> 0

\* the raster a calculator writes for a mask formula over the raster a;
\* a raster whose content this run does not know stays unknown
Select(formula, a) ==
    IF a = Unwritten THEN Unwritten
    ELSE [i \in DOMAIN a |-> EvalFormula(formula, a[i])]

\* the raster a buffer method writes for distance 1 pixel: the cells of
\* value 1 and their neighbours
Buffer(a) ==
    IF a = Unwritten THEN Unwritten
    ELSE [i \in DOMAIN a |->
            IF \E j \in DOMAIN a : Abs(i - j) <= 1 /\ a[j] = 1 THEN 1
            ELSE IF a[i] = NoData THEN NoData ELSE 0]

\* a last resort that buffers the mask after all
LastResortMaskBuffered(a) == Buffer(a)

\* the last resort of the buffer methods: shutil.copy2 of the buffer input
LastResortMask(a) == a

\* the raster at path after a call with outcome o that writes content
WritePixels(px, path, o, content) ==
    IF Wrote(o) THEN [px EXCEPT ![path] = content] ELSE px

\* a no-buffer branch taken for no buffer distance at all
NoBufferingNever(distance) == FALSE

\* the test of the buffer distance that skips the buffer methods
NoBuffering(distance) == distance <= 0

BufferFeatures ==
    /\ pc = "buffering"
    /\ update_progress(cfg.iterations + 7)
    /\ UNCHANGED <<PercentileVars, ScalingVars, DialogVars>>
    /\ stages' = Append(stages, "buffering")
    /\ LateUnchanged
    /\ UNCHANGED <<interpolation_method, original_interpolation_method,
                   interpolation_success, report>>
    \* the state of the filter checkboxes, which the 3-class branches read
    /\ \E flags \in FilterFlags(cfg) :
         /\ cfg' = ReadWidget(ReadWidget(cfg, "filter_anthropogenic",
                                         flags.anthropogenic),
                              "filter_vegetation", flags.vegetation)
         /\ IF NoBuffering(cfg.buffer)
              THEN \* no buffering: the selection mask (3-class) or a copy of
                   \* the label grid (binary) becomes the buffered mask
                   \E o \in {"ok", "nofile", "raise"} :
                     LET who == IF use_texture THEN "selection" ELSE "label_copy"
                         fs1 == AfterCall(files, BufferedFile, o, who)
                         content ==
                             IF use_texture
                               THEN Select(NoBufferFormula(flags.anthropogenic,
                                                           flags.vegetation), labels)
                               ELSE labels
                     IN  /\ ~use_texture => o # "nofile"
                         /\ Disturb(o = "ok")
                         /\ attempts' = <<>>
                         /\ files' = fs1
                         /\ pixels' = WritePixels(pixels, BufferedFile, o, content)
                         /\ IF Raised(o) \/ ~isfile(fs1, BufferedFile)
                              THEN Abort("exception")
                              ELSE Continue("buffering")
              ELSE \E s \in {"ok", "nofile", "raise"}, o1 \in ProviderOutcomes,
                      o2 \in ProviderOutcomes, c \in {"ok", "raise"} :
                     LET \* extraction of the selected features (3-class only)
                         fs0 == IF use_texture
                                  THEN AfterCall(files, SelectedFile, s, "selection")
                                  ELSE files
                         px0 == IF use_texture
                                  THEN WritePixels(pixels, SelectedFile, s,
                                           Select(ExtractionFormula(flags.anthropogenic,
                                                                    flags.vegetation),
                                                  labels))
                                  ELSE pixels
                         extract_failed ==
                             use_texture /\ (Raised(s) \/ ~isfile(fs0, SelectedFile))
                         buffer_input == IF use_texture THEN "selection" ELSE "label_copy"
                         input == IF use_texture THEN px0[SelectedFile] ELSE labels
                         fs1 == AfterCall(fs0, BufferedFile, o1, "grass7:r.buffer")
                         px1 == WritePixels(px0, BufferedFile, o1, Buffer(input))
                         ok1 == ~Raised(o1) /\ isfile(fs1, BufferedFile)
                         fs2 == AfterCall(fs1, BufferedFile, o2, "gdal:proximity")
                         px2 == WritePixels(px1, BufferedFile, o2, Buffer(input))
                         ok2 == ~Raised(o2) /\ isfile(fs2, BufferedFile)
                         fs3 == IF c = "ok" THEN [fs2 EXCEPT ![BufferedFile] = buffer_input]
                                            ELSE fs2
                         px3 == IF c = "ok" THEN [px2 EXCEPT ![BufferedFile] =
                                                          LastResortMask(input)]
                                            ELSE px2
                         a1  == Append2(<<>>, "grass7:r.buffer", o1)
                         a2  == Append2(a1, "gdal:proximity", o2)
                         a3  == Append2(a2, "copy", c)
                     IN  /\ ~use_texture => s = "ok"
                         /\ extract_failed => (o1 = "ok" /\ o2 = "ok" /\ c = "ok")
                         /\ ok1 => (o2 = "ok" /\ c = "ok")
                         /\ (~ok1 /\ ok2) => c = "ok"
                         /\ Disturb(s = "ok" /\ o1 = "ok")
                         /\ IF extract_failed
                              THEN /\ files' = fs0
                                   /\ pixels' = px0
                                   /\ attempts' = <<>>
                                   /\ Abort("exception")
                              ELSE IF ok1
                              THEN /\ files' = fs1
                                   /\ pixels' = px1
                                   /\ attempts' = a1
                                   /\ Continue("buffering")
                              ELSE IF ok2
                              THEN /\ files' = fs2
                                   /\ pixels' = px2
                                   /\ attempts' = a2
                                   /\ Continue("buffering")
                              ELSE /\ files' = fs3
                                   /\ pixels' = px3
                                   /\ attempts' = a3
                                   /\ IF c = "ok" THEN Continue("buffering")
                                                  ELSE Abort("exception")

-----------------------------------------------------------------------------
(* Step 7: masking of the filtered DSM *)

MaskedFile == "masked_dsm.tif"

\* the smoothed surface (the filtered DSM), per pixel
Smoothed == [i \in DOMAIN Grid |-> Grid[i].dsm]

\* a masking stage that selects every class when no flag is set
MaskingFormulaNeverEmpty(anthro, veg) ==
    IF anthro /\ veg THEN "A > 0"
    ELSE IF anthro /\ ~veg THEN "A > 1"
    ELSE IF ~anthro /\ veg THEN "A > 0 AND A <= 1"
    ELSE "A > 0"

\* the formula of the masking stage
MaskingFormula(anthro, veg) ==
    IF anthro /\ veg THEN "A > 0"
    ELSE IF anthro /\ ~veg THEN "A > 1"
    ELSE IF ~anthro /\ veg THEN "A > 0 AND A <= 1"
    ELSE "0"

\* 3-class: if ( "buffered_mask@1" = 1, 0/0, "filtered_dsm@1" )
TextureMaskExpression(mask, dsm) ==
    IF mask = NoData \/ dsm = NoData THEN NoData
    ELSE IF mask = 1 THEN NoData ELSE dsm

\* binary: if ( "buffered_mask@1" = 0, "filtered_dsm@1", 0/0 )
BinaryMaskExpression(mask, dsm) ==
    IF mask = NoData \/ dsm = NoData THEN NoData
    ELSE IF mask = 0 THEN dsm ELSE NoData

\* the masked DSM the raster calculator writes
ApplyMask(use_tex, mask, dsm) ==
    IF mask = Unwritten THEN Unwritten
    ELSE [i \in DOMAIN dsm |->
            IF use_tex THEN TextureMaskExpression(mask[i], dsm[i])
                       ELSE BinaryMaskExpression(mask[i], dsm[i])]

MaskDsm ==
    /\ pc = "masking"
    /\ update_progress(cfg.iterations + 8)
    /\ UNCHANGED <<PercentileVars, ScalingVars, DialogVars>>
    /\ stages' = Append(stages, "masking")
    /\ attempts' = <<>>
    /\ LateUnchanged
    /\ UNCHANGED <<cfg, interpolation_method, original_interpolation_method,
                   interpolation_success, report>>
    /\ \E s \in {"ok", "nofile", "raise"}, o \in {"ok", "nofile", "raise"},
          seen \in {"loaded", "rewritten"} :
         LET \* 3-class: the selection formula is evaluated once more, into
             \* the path of the buffered mask
             fs0 == IF use_texture
                      THEN AfterCall(files, BufferedFile, s, "masking:selection")
                      ELSE files
             px0 == IF use_texture
                      THEN WritePixels(pixels, BufferedFile, s,
                               Select(MaskingFormula(cfg.filter_anthropogenic,
                                                     cfg.filter_vegetation),
                                      labels))
                      ELSE pixels
             select_failed == use_texture /\ Raised(s)
             \* the mask layer was loaded from the path before the formula
             \* rewrote the file: the calculator reads the raster as it was
             \* loaded (a resampled copy of it, or its cached blocks) or the
             \* raster as it is now
             mask == IF seen = "loaded" THEN pixels[BufferedFile]
                                        ELSE px0[BufferedFile]
             fs1 == AfterCall(fs0, MaskedFile, o, "QgsRasterCalculator")
             px1 == WritePixels(px0, MaskedFile, o,
                                ApplyMask(use_texture, mask, Smoothed))
         IN  /\ ~use_texture => s = "ok"
             /\ select_failed => o = "ok"
             /\ (px0[BufferedFile] = pixels[BufferedFile] \/ ~Wrote(o))
                    => seen = "loaded"
             /\ Disturb(s = "ok" /\ o = "ok")
             /\ IF select_failed
                  THEN /\ files' = fs0
                       /\ pixels' = px0
                       /\ Abort("exception")
                  ELSE /\ files' = fs1
                       /\ pixels' = px1
                       /\ IF Raised(o) \/ ~isfile(fs1, MaskedFile)
                            THEN Abort("exception")
                            ELSE Continue("masking")

-----------------------------------------------------------------------------
(* Step 8: gap-fill interpolation *)

ReconstructedFile == "reconstructed_dsm.tif"

\* a failed Enhanced GDAL fill that hands over to GRASS r.fillnulls, which
\* the elif after it never runs
EnhancedFallbackToGrass == "grass_fillnulls"

\* the method a failed Enhanced GDAL fill falls back to
EnhancedFallback == "simple"
\* the method a failed GRASS r.fillnulls falls back to
GrassFallback == "simple"

FillSucceeded(fs, o) == ~Raised(o) /\ isfile(fs, ReconstructedFile)

\* a final fallback that copies the masked DSM and leaves
\* interpolation_success unset
TerminalCopyLeavesFailure(c) == FALSE

\* the final fallback: interpolation_success is set once copy2 has returned
TerminalCopySucceeded(c) == c = "ok"

\* the surface a fill method writes: the NoData cells of the masked DSM take
\* the value of the nearest valid cell
Fill(a) ==
    IF a = Unwritten THEN Unwritten
    ELSE LET valid == {j \in DOMAIN a : a[j] # NoData}
             near(i) == CHOOSE j \in valid : \A k \in valid :
                            \/ Abs(j - i) < Abs(k - i)
                            \/ (Abs(j - i) = Abs(k - i) /\ j <= k)
         IN  [i \in DOMAIN a |->
                 IF a[i] # NoData \/ valid = {} THEN a[i] ELSE a[near(i)]]

\* a final fallback that copies the smoothed surface
TerminalCopyOfSmoothed(px) == Smoothed

\* the final fallback: shutil.copy2(masked_dsm_path, output_dsm)
TerminalCopy(px) == px[MaskedFile]

FillGaps ==
    /\ pc = "gapfill"
    /\ update_progress(cfg.iterations + 9)
    /\ UNCHANGED <<PercentileVars, ScalingVars, DialogVars>>
    /\ stages' = Append(stages, "gapfill")
    /\ LateUnchanged
    /\ UNCHANGED report
    /\ \E m \in Methods : cfg' = ReadWidget(cfg, "method", m)
    /\ original_interpolation_method' = cfg'.method
    /\ \E o1 \in ProviderOutcomes, o2 \in ProviderOutcomes, c \in {"ok", "raise"} :
         LET first == cfg'.method
             filled == Fill(pixels[MaskedFile])
             \* the if / elif of the Enhanced and the GRASS method
             fs1 == IF first \in {"enhanced", "grass_fillnulls"}
                      THEN AfterCall(files, ReconstructedFile, o1, first)
                      ELSE files
             px1 == IF first \in {"enhanced", "grass_fillnulls"}
                      THEN WritePixels(pixels, ReconstructedFile, o1, filled)
                      ELSE pixels
             ok1 == first \in {"enhanced", "grass_fillnulls"} /\ FillSucceeded(fs1, o1)
             a1  == IF first \in {"enhanced", "grass_fillnulls"}
                      THEN Append2(<<>>, first, o1) ELSE <<>>
             method1 == IF first = "enhanced" /\ ~ok1 THEN EnhancedFallback
                        ELSE IF first = "grass_fillnulls" /\ ~ok1 THEN GrassFallback
                        ELSE first
             \* the if of the Simple method and its final fallback
             simple == method1 = "simple"
             fs2 == IF simple THEN AfterCall(fs1, ReconstructedFile, o2, "simple") ELSE fs1
             px2 == IF simple THEN WritePixels(px1, ReconstructedFile, o2, filled) ELSE px1
             ok2 == simple /\ FillSucceeded(fs2, o2)
             copy == simple /\ ~ok2
             fs3 == IF copy /\ c = "ok"
                      THEN [fs2 EXCEPT ![ReconstructedFile] = "masked_copy"] ELSE fs2
             px3 == IF copy /\ c = "ok"
                      THEN [px2 EXCEPT ![ReconstructedFile] = TerminalCopy(px2)] ELSE px2
             a2  == IF simple THEN Append2(a1, "simple", o2) ELSE a1
             a3  == IF copy THEN Append2(a2, "masked_copy", c) ELSE a2
             success == ok1 \/ ok2 \/ (copy /\ TerminalCopySucceeded(c))
         IN  /\ first = "simple" => o1 = "ok"
             /\ ~simple => o2 = "ok"
             /\ ~copy => c = "ok"
             /\ Disturb(o1 = "ok" /\ o2 = "ok")
             /\ interpolation_method' = method1
             /\ interpolation_success' = success
             /\ files' = fs3
             /\ pixels' = px3
             /\ attempts' = a3
             /\ IF success THEN Continue("gapfill") ELSE Abort("exception")

-----------------------------------------------------------------------------
(* The result layers are loaded and the report is generated *)

\* bandStatistics(1).sum of a label grid: the sum of the values of its
\* pixels that are not NoData
RECURSIVE BandSum(_)
BandSum(grid) ==
    IF grid = <<>> THEN 0
    ELSE (IF Head(grid) = NoData THEN 0 ELSE Head(grid)) + BandSum(Tail(grid))

\* anthropogenic_pixels = stats.sum and total_pixels = width * height are
\* taken from the label grid when classification has written it and are
\* handed to generate_processing_report; no stage in between writes the
\* grid.  A grid left by an earlier run (Unwritten) is followed without its
\* pixels.
GenerateReport ==
    /\ pc = "report"
    /\ update_progress(total_steps)
    /\ UNCHANGED <<PercentileVars, ScalingVars, DialogVars>>
    /\ report' = [ written |-> TRUE,
                   interpolation_method |-> interpolation_method,
                   original_interpolation_method |-> original_interpolation_method,
                   stats_results |-> stats_results,
                   use_residuals |-> use_residuals,
                   anthropogenic_pixels |-> BandSum(labels),
                   total_pixels |-> Len(labels) ]
    /\ pc' = "done"
    /\ result' = "completed"
    /\ UNCHANGED <<cfg, failing_stages, abort_cause, stages, attempts, files, iteration,
                   current_dsm_path, filtered_dsm_path, use_residuals,
                   residual_layer, residual_all_failed, slope_layer,
                   curvature_layer, texture_variance, texture_entropy,
                   percentile_absent, stats_results, slope_threshold,
                   curvature_threshold, residual_threshold, variance_threshold,
                   entropy_threshold, use_texture, calc_expression, labels, pixels,
                   interpolation_method, original_interpolation_method,
                   interpolation_success>>

-----------------------------------------------------------------------------
Next ==
    \/ ValidateInput
    \/ GaussianFilterPass
    \/ CalculateResiduals
    \/ CalculateSlope
    \/ CalculateCurvature
    \/ PerformTextureAnalysis
    \/ ThresholdAnalysis
    \/ IdentifyFeatures
    \/ BufferFeatures
    \/ MaskDsm
    \/ FillGaps
    \/ GenerateReport

Spec == Init /\ [][Next]_vars

\* the runs of the dialog that has the filter checkboxes, into an empty
\* output directory
FilterSpec == FilterInit /\ [][Next]_vars

-----------------------------------------------------------------------------
(* calculate_raster_percentiles *)

\* a raster of more pixels than this is sampled on a lattice of at most
\* LargeTarget points
LargeRaster == 5000000
LargeTarget == 100000

\* a raster of more pixels than this (and at most LargeRaster) is sampled
\* tile by tile; a smaller one on a lattice of at most SmallTarget points
MediumRaster == 1000000
SmallTarget == 50000

\* side of a tile of the chunked strategy, and the bounds of its stride
chunk_size == 1000
ChunkStrideMax == 10
ChunkStrideDivisor == 100

\* value != value holds of this pixel value only
NaN == 0 - 98

\* percentile results are kept in hundredths
Hundredths == 100

Min(a, b) == IF a <= b THEN a ELSE b

\* the names the module's import statements bind
ModuleNames ==
    {"os", "uic", "QDialog", "QMessageBox", "QAction", "QFileDialog",
     "QCoreApplication", "QgsProject", "QgsProcessingFeedback", "QgsRasterLayer",
     "QgsPointXY", "QgsRasterBandStats", "processing", "tempfile"}

\* the percentile arguments of the calls
Percentiles == {0, 10, 50, 90, 100}

\* Rasters.  A raster is [width, height, content, a, b, valid, read]:
\*   content "arranged": the values 1..100, one per pixel, the pixel of column
\*       i and row j holding ((a * (i*height + j) + b) % 100) + 1
\*   content "columns": every pixel of column i holds ((a*i + b) % 100) + 1
\*   content "nodata", "nan": every pixel holds NoData, NaN
\*   valid: raster_layer.isValid() and its provider's isValid()
\*   read: whether provider.sample delivers ("ok"), reports no success
\*       ("unsuccessful") or raises ("raises")
Raster(shape, content, a, b, valid, read) ==
    [width |-> shape[1], height |-> shape[2], content |-> content,
     a |-> a, b |-> b, valid |-> valid, read |-> read]

\* shapes of 100 pixels
HundredPixelShapes == {<<10, 10>>, <<100, 1>>, <<1, 100>>, <<20, 5>>, <<4, 25>>}

\* multipliers and offsets of the arrangements (the multipliers are units
\* modulo 100, so each arrangement holds every value once)
Multipliers == {1, 3, 99}
Offsets == {0, 10, 20, 30, 40, 50, 60, 70, 80, 90}

OneToHundredRasters ==
    { Raster(s, "arranged", a, b, TRUE, "ok") :
        s \in HundredPixelShapes, a \in Multipliers, b \in Offsets }

SmallShapes == {<<1, 1>>, <<3, 1>>, <<30, 20>>, <<40, 3000>>, <<20, 50000>>}
MediumShapes == {<<1001, 1000>>, <<2000, 1500>>, <<5000, 1000>>, <<1000, 5000>>}
LargeShapes == {<<50, 100001>>, <<10, 600000>>, <<20, 300000>>}

ColumnRasters ==
    { Raster(s, "columns", a, b, TRUE, "ok") :
        s \in SmallShapes \cup MediumShapes \cup LargeShapes,
        a \in {1, 3}, b \in {0, 50} }

\* rasters without a valid value, rasters that cannot be read, invalid layers
TroubledRasters ==
    { Raster(s, c, 1, 0, TRUE, "ok") :
        s \in {<<10, 10>>, <<2000, 1500>>, <<20, 300000>>}, c \in {"nodata", "nan"} }
    \cup { Raster(s, "columns", 1, 0, TRUE, rd) :
             s \in {<<10, 10>>, <<2000, 1500>>, <<20, 300000>>},
             rd \in {"unsuccessful", "raises"} }
    \cup { Raster(<<10, 10>>, "columns", 1, 0, FALSE, "ok") }

\* the argument None in place of a layer
NoRaster == Raster(<<0, 0>>, "None", 1, 0, FALSE, "ok")

Rasters == OneToHundredRasters \cup ColumnRasters \cup TroubledRasters \cup {NoRaster}

\* the value of the pixel of column i, row j
PixelValue(r, i, j) ==
    CASE r.content = "arranged" -> ((r.a * (i * r.height + j) + r.b) % 100) + 1
      [] r.content = "columns"  -> ((r.a * i + r.b) % 100) + 1
      [] r.content = "nodata"   -> NoData
      [] r.content = "nan"      -> NaN

\* a test that lets NoData through
ValidSampleKeepsNoData(r, v) == r.read = "ok" /\ v # NaN

\* success and value != nodata_value and not (value != value)
ValidSample(r, v) == r.read = "ok" /\ v # NoData /\ v # NaN

\* len(range(0, n, step))
RangeLen(n, step) == (n + step - 1) \div step

\* int(x ** 0.5) for x = t / target, counting up from f
RECURSIVE IntSqrt(_, _, _)
IntSqrt(t, target, f) ==
    IF (f + 1) * (f + 1) * target > t THEN f ELSE IntSqrt(t, target, f + 1)

\* sample_factor = max(1, int((total_pixels / target_samples) ** 0.5))
SampleFactor(t, target) == Max(1, IntSqrt(t, target, 0))

\* the valid values among the n lattice rows j0, j0 + f, ... of column i
RECURSIVE ColumnValues(_, _, _, _, _)
ColumnValues(r, i, j0, f, n) ==
    IF n = 0 \/ r.read # "ok" THEN EmptyBag
    ELSE IF r.content # "arranged"
         THEN IF ValidSample(r, PixelValue(r, i, j0))
              THEN PixelValue(r, i, j0) :> n
              ELSE EmptyBag
         ELSE ColumnValues(r, i, j0, f, n - 1)
              (+) (IF ValidSample(r, PixelValue(r, i, j0 + (n - 1) * f))
                   THEN SetToBag({PixelValue(r, i, j0 + (n - 1) * f)})
                   ELSE EmptyBag)

\* The lattice loops of the large and the small strategy, from column i on:
\* <<values, samples_taken>>.  A sample that raises is skipped without being
\* counted; the inner loop and then the outer loop stop at target samples.
RECURSIVE LatticeFrom(_, _, _, _, _, _)
LatticeFrom(r, f, target, i, vals, taken) ==
    IF i >= r.width THEN <<vals, taken>>
    ELSE LET n      == Min(RangeLen(r.height, f), target - taken)
             vals2  == vals (+) ColumnValues(r, i, 0, f, n)
             taken2 == taken + n
         IN  IF taken2 >= target THEN <<vals2, taken2>>
             ELSE LatticeFrom(r, f, target, i + f, vals2, taken2)

Lattice(r, f, target) ==
    IF r.read = "raises" THEN <<EmptyBag, 0>>
    ELSE LatticeFrom(r, f, target, 0, EmptyBag, 0)

\* The last column i the outer loop of a lattice strategy enters: the loop
\* is left after the column in which samples_taken reaches the target.  When
\* provider.sample raises nothing is counted and every column is entered.
RECURSIVE LastColumnFrom(_, _, _, _, _)
LastColumnFrom(r, f, target, i, taken) ==
    IF i + f >= r.width \/ taken + RangeLen(r.height, f) >= target THEN i
    ELSE LastColumnFrom(r, f, target, i + f, taken + RangeLen(r.height, f))

LastColumn(r, f, target) ==
    IF r.read = "raises" THEN ((r.width - 1) \div f) * f
    ELSE LastColumnFrom(r, f, target, 0, 0)

\* the tiles of the chunked strategy, in the order of its loops
ChunkColumns(r) == RangeLen(r.width, chunk_size)
ChunkRows(r) == RangeLen(r.height, chunk_size)
Chunks(r) == ChunkColumns(r) * ChunkRows(r)
chunk_x(r, t) == (t \div ChunkRows(r)) * chunk_size
chunk_y(r, t) == (t % ChunkRows(r)) * chunk_size
chunk_width(r, t) == Min(chunk_size, r.width - chunk_x(r, t))
chunk_height(r, t) == Min(chunk_size, r.height - chunk_y(r, t))

\* the valid values of the local lattice of tile t, from local column i on
RECURSIVE ChunkValues(_, _, _, _)
ChunkValues(r, t, f, i) ==
    IF i >= chunk_width(r, t) THEN EmptyBag
    ELSE ColumnValues(r, chunk_x(r, t) + i, chunk_y(r, t), f,
                      RangeLen(chunk_height(r, t), f))
         (+) ChunkValues(r, t, f, i + f)

\* the k-th (from 0) of the values of bag b in ascending order
CountUpTo(b, v) ==
    BagCardinality([u \in {x \in DOMAIN b : x <= v} |-> b[u]])

Nth(b, k) ==
    CHOOSE v \in DOMAIN b :
        /\ CountUpTo(b, v) > k
        /\ \A u \in DOMAIN b : u < v => CountUpTo(b, u) <= k

\* np.percentile(values_array, percentile): linear interpolation between the
\* two values around position (percentile / 100) * (n - 1), in hundredths
NumpyPercentile(b, p) ==
    LET n    == BagCardinality(b)
        lo   == (p * (n - 1)) \div 100
        frac == (p * (n - 1)) % 100
        hi   == Min(lo + 1, n - 1)
    IN  Hundredths * Nth(b, lo) + frac * (Nth(b, hi) - Nth(b, lo))

\* a fallback that reads the sorted values from the top
FallbackPercentileDescending(b, p) ==
    LET n     == BagCardinality(b)
        index == ((100 - p) * (n - 1)) \div 100
    IN  Hundredths * Nth(b, Max(0, Min(index, n - 1)))

\* the fallback without numpy: valid_values[int((percentile / 100.0) * (n - 1))]
\* of the sorted values, the index kept within 0 .. n - 1
FallbackPercentile(b, p) ==
    LET n     == BagCardinality(b)
        index == (p * (n - 1)) \div 100
    IN  Hundredths * Nth(b, Max(0, Min(index, n - 1)))

\* the function returns v
Return(v) ==
    /\ call' = "returned"
    /\ percentile_value' = v

\* a choice that sends a raster of exactly 1M or 5M pixels to the strategy
\* of the larger rasters
StrategyForInclusive(total_pixels) ==
    IF total_pixels >= LargeRaster THEN "large"
    ELSE IF total_pixels >= MediumRaster THEN "chunked"
    ELSE "small"

\* the if / elif / else on total_pixels
StrategyFor(total_pixels) ==
    IF total_pixels > LargeRaster THEN "large"
    ELSE IF total_pixels > MediumRaster THEN "chunked"
    ELSE "small"

\* an exception leaves the function
Escape ==
    /\ call' = "raised"
    /\ UNCHANGED percentile_value

\* The head of the function: the layer and provider checks, the dimensions
\* and the choice of the strategy by total_pixels.  The first statement and
\* the outermost handler both print raster_layer.name(): with None for a
\* layer the handler raises again.
CalculateRasterPercentiles ==
    /\ call = "called"
    /\ UNCHANGED <<RunReconstructionVars, ScalingVars, DialogVars, raster_layer, percentile, numpy, chunk,
                   values, samples_taken, target_samples, sample_factor, last_column>>
    /\ IF raster_layer = NoRaster
         THEN Escape /\ UNCHANGED strategy
         ELSE IF ~raster_layer.valid
         THEN Return(None) /\ UNCHANGED strategy
         ELSE LET total_pixels == raster_layer.width * raster_layer.height
              IN  /\ strategy' = StrategyFor(total_pixels)
                  /\ call' = "sampling"
                  /\ UNCHANGED percentile_value

\* the lattice loop of a raster of more than 5M pixels
SampleLarge ==
    /\ call = "sampling"
    /\ strategy = "large"
    /\ UNCHANGED <<RunReconstructionVars, ScalingVars, DialogVars, raster_layer, percentile, numpy, strategy,
                   chunk, percentile_value>>
    /\ LET total_pixels == raster_layer.width * raster_layer.height
           target  == Min(LargeTarget, total_pixels \div 10)
           factor  == SampleFactor(total_pixels, target)
           sampled == Lattice(raster_layer, factor, target)
       IN  /\ target_samples' = Some(target)
           /\ sample_factor' = Some(factor)
           /\ last_column' = Some(LastColumn(raster_layer, factor, target))
           /\ values' = sampled[1]
           /\ samples_taken' = sampled[2]
           /\ call' = "sampled"

\* One tile of the chunked strategy.  The tile's extent is built with
\* QgsRectangle outside the try blocks of the loop, so an unbound name ends
\* the function in its outermost handler, which returns None.
SampleChunk ==
    /\ call = "sampling"
    /\ strategy = "chunked"
    /\ UNCHANGED <<RunReconstructionVars, ScalingVars, DialogVars, raster_layer, percentile, numpy, strategy,
                   samples_taken, target_samples, sample_factor, last_column>>
    /\ IF chunk >= Chunks(raster_layer)
         THEN /\ call' = "sampled"
              /\ UNCHANGED <<chunk, values, percentile_value>>
         ELSE IF "QgsRectangle" \notin ModuleNames
         THEN /\ Return(None)
              /\ UNCHANGED <<chunk, values>>
         ELSE LET chunk_sample_factor ==
                      Max(1, Min(ChunkStrideMax,
                                 chunk_width(raster_layer, chunk)
                                     \div ChunkStrideDivisor))
              IN  /\ values' =
                        IF raster_layer.read = "raises" THEN values
                        ELSE values (+) ChunkValues(raster_layer, chunk,
                                                    chunk_sample_factor, 0)
                  /\ chunk' = chunk + 1
                  /\ UNCHANGED <<call, percentile_value>>

\* the lattice loop of a raster of at most 1M pixels; a raster of one pixel
\* has a target of 0 samples and the stride's division raises
SampleSmall ==
    /\ call = "sampling"
    /\ strategy = "small"
    /\ UNCHANGED <<RunReconstructionVars, ScalingVars, DialogVars, raster_layer, percentile, numpy, strategy,
                   chunk>>
    /\ LET total_pixels == raster_layer.width * raster_layer.height
           target == Min(SmallTarget, total_pixels \div 2)
       IN  /\ target_samples' = Some(target)
           /\ IF target = 0
             THEN Return(None)
                  /\ UNCHANGED <<values, samples_taken, sample_factor, last_column>>
             ELSE LET factor  == SampleFactor(total_pixels, target)
                      sampled == Lattice(raster_layer, factor, target)
                  IN  /\ sample_factor' = Some(factor)
                      /\ last_column' = Some(LastColumn(raster_layer, factor, target))
                      /\ values' = sampled[1]
                      /\ samples_taken' = sampled[2]
                      /\ call' = "sampled"
                      /\ UNCHANGED percentile_value

\* After the loops: no value raises into the outermost handler (None); with
\* numpy np.percentile; without it the ImportError handler's fallback
ComputePercentile ==
    /\ call = "sampled"
    /\ UNCHANGED <<RunReconstructionVars, ScalingVars, DialogVars, raster_layer, percentile, numpy, strategy,
                   chunk, values, samples_taken,
                   target_samples, sample_factor, last_column>>
    /\ IF values = EmptyBag
         THEN Return(None)
         ELSE IF numpy
         THEN Return(Some(NumpyPercentile(values, percentile)))
         ELSE Return(Some(FallbackPercentile(values, percentile)))

\* a call of calculate_raster_percentiles on one raster, followed sample by
\* sample; run_reconstruction stands still
PercentileInit ==
    /\ InitWith({[buffer |-> 0, iterations |-> 1, filter_widgets |-> FALSE]})
    /\ files = EmptyDir
    /\ call = "called"
    /\ raster_layer \in Rasters
    /\ percentile \in Percentiles
    /\ numpy \in BOOLEAN
    /\ strategy = "none"
    /\ chunk = 0
    /\ values = EmptyBag
    /\ samples_taken = 0
    /\ target_samples = None
    /\ sample_factor = None
    /\ last_column = None
    /\ percentile_value = None
    /\ NoScaling
    /\ NoDialog

PercentileNext ==
    \/ CalculateRasterPercentiles
    \/ SampleLarge
    \/ SampleChunk
    \/ SampleSmall
    \/ ComputePercentile

PercentileSpec == PercentileInit /\ [][PercentileNext]_vars

-----------------------------------------------------------------------------
(* get_pixel_size_and_scale_parameters *)

\* map units are counted in thousandths, sigma and the buffer distance in
\* hundredths, kernel radius and fill distance in pixels
Thousandths == 1000
reference_resolution == 2 * Thousandths
target_smoothing_distance == 3 * Thousandths
target_kernel_distance == 8 * Thousandths
target_fill_distance == 100 * Thousandths

\* the pixel sizes of the DSMs, per axis (rasterUnitsPerPixelY is negative
\* for a north-up raster)
PixelSizesX == {0, 100, 150, 600, 1800, 2000, 2200, 2400, 16000, 50000, 60000}
PixelSizesY == PixelSizesX \cup {0 - 100, 0 - 2000, 0 - 50000}

DsmLayers ==
    {DsmLayer(x, y, TRUE) : x \in PixelSizesX, y \in PixelSizesY} \cup {NoDsm}

\* the values of the spin boxes when the function is called
SigmaValues == {100, 200, 800}
KernelRadiusValues == {3, 20}
BufferDistanceValues == {0, 300}
FillDistanceValues == {50}

\* a clamp that has lost its upper bound
ClampFromBelow(lo, hi, v) == Max(lo, v)

\* max(lo, min(hi, v))
Clamp(lo, hi, v) == Max(lo, Min(hi, v))

\* (pixel_size_x + pixel_size_y) / 2 of the absolute pixel sizes; the
\* pixel sizes of the model are even, so the mean is a whole number
PixelSize(layer) == (Abs(layer.x) + Abs(layer.y)) \div 2

\* target_smoothing_distance / pixel_size clamped to 0.5 .. 5.0, in
\* hundredths (rounded down)
ScaledSigma(pixel_size) ==
    Clamp(50, 500, (target_smoothing_distance * Hundredths) \div pixel_size)

\* int(target_kernel_distance / pixel_size) clamped to 1 .. 15
ScaledKernelRadius(pixel_size) ==
    Clamp(1, 15, target_kernel_distance \div pixel_size)

\* int(target_fill_distance / pixel_size) clamped to 1 .. 1000
ScaledFillDistance(pixel_size) ==
    Clamp(1, 1000, target_fill_distance \div pixel_size)

\* a buffer distance converted to the pixel size of the DSM
ScaledBufferDistancePerPixel(original_buffer_distance, pixel_size) ==
    (original_buffer_distance * reference_resolution) \div pixel_size

\* scaled_buffer_distance = original_buffer_distance
ScaledBufferDistance(original_buffer_distance, pixel_size) ==
    original_buffer_distance

\* int(buffer_distance / scaling_info['pixel_size']) clamped to 1 .. 50, the
\* buffer distance in hundredths and the pixel size in thousandths
BufferDistancePixels(buffer_distance, pixel_size) ==
    Clamp(1, 50, (buffer_distance * (Thousandths \div Hundredths)) \div pixel_size)

\* abs(scale_factor - 1.0) > 0.1 with scale_factor = pixel_size / 2.0.  In
\* binary floating point 2.2 / 2.0 - 1.0 is just above 0.1 and
\* abs(1.8 / 2.0 - 1.0) just below it, so 2.2 asks and 1.8 does not.
SignificantScaling(pixel_size) ==
    \/ pixel_size < reference_resolution - reference_resolution \div 10
    \/ pixel_size >= reference_resolution + reference_resolution \div 10

\* the dictionary the function returns after scaling
ScaledInfo(pixel_size) ==
    [ pixel_size                |-> pixel_size,
      suggested_sigma           |-> ScaledSigma(pixel_size),
      suggested_kernel_radius   |-> ScaledKernelRadius(pixel_size),
      suggested_buffer_distance |-> ScaledBufferDistance(spinBufferDistance, pixel_size),
      suggested_fill_distance   |-> ScaledFillDistance(pixel_size) ]

\* the dictionary of the except branch: a pixel size of 2.0 and the spin
\* boxes as they are
UnscaledInfo ==
    [ pixel_size                |-> reference_resolution,
      suggested_sigma           |-> spinSigma,
      suggested_kernel_radius   |-> spinKernelRadius,
      suggested_buffer_distance |-> spinBufferDistance,
      suggested_fill_distance   |-> spinFillDistance ]

\* The function up to the question or, without one, to its return.  A layer
\* whose pixel size cannot be read and a pixel size of 0 (division by zero)
\* both end in the except branch.
GetPixelSizeAndScaleParameters ==
    /\ scaling_call = "called"
    /\ UNCHANGED <<RunReconstructionVars, PercentileVars, DialogVars, dsm_layer, spinSigma,
                   spinKernelRadius, spinBufferDistance, spinFillDistance, reply,
                   buffer_distance_pixels, SmoothingVars>>
    /\ IF ~dsm_layer.readable \/ PixelSize(dsm_layer) = 0
         THEN /\ scaling_info' = UnscaledInfo
              /\ scaling_call' = "returned"
         ELSE /\ scaling_info' = ScaledInfo(PixelSize(dsm_layer))
              /\ scaling_call' = IF SignificantScaling(PixelSize(dsm_layer))
                                   THEN "asked" ELSE "returned"

\* QMessageBox.question returns: Yes writes the scaled values into the spin
\* boxes (the buffer distance only when it is above 0), No leaves them
AutoScaleQuestion ==
    /\ scaling_call = "asked"
    /\ UNCHANGED <<RunReconstructionVars, PercentileVars, DialogVars, dsm_layer, scaling_info,
                   buffer_distance_pixels, SmoothingVars>>
    /\ \E answer \in {"Yes", "No"} :
         /\ reply' = answer
         /\ IF answer = "Yes"
              THEN /\ spinSigma' = scaling_info.suggested_sigma
                   /\ spinKernelRadius' = scaling_info.suggested_kernel_radius
                   /\ spinBufferDistance' =
                        IF spinBufferDistance > 0
                          THEN scaling_info.suggested_buffer_distance
                          ELSE spinBufferDistance
                   /\ spinFillDistance' = scaling_info.suggested_fill_distance
              ELSE UNCHANGED <<spinSigma, spinKernelRadius, spinBufferDistance,
                               spinFillDistance>>
    /\ scaling_call' = "returned"

\* The buffering stage of run_reconstruction converts the buffer distance
\* of the spin box, read after the scaling call, with the pixel size the
\* call returned.  A distance of 0 skips the conversion.
ConvertBufferDistance ==
    /\ scaling_call = "returned"
    /\ buffer_distance_pixels = None
    /\ spinBufferDistance > 0
    /\ buffer_distance_pixels' =
          Some(BufferDistancePixels(spinBufferDistance, scaling_info.pixel_size))
    /\ UNCHANGED <<RunReconstructionVars, PercentileVars, DialogVars, scaling_call, dsm_layer,
                   spinSigma, spinKernelRadius, spinBufferDistance, spinFillDistance,
                   reply, scaling_info, SmoothingVars>>

\* the values of spinGaussianIterations
GaussianIterations == {1, 2, 3, 4}

Millionths == 1000000

\* a / b to the nearest whole number (a >= 0, b > 0)
Nearest(a, b) == (2 * a + b) \div (2 * b)

\* a sigma that counts the passes from 1 and divides by their number
AdaptiveSigmaOneBased(sigma, pass, passes) ==
    IF passes = 1
      THEN sigma * (Millionths \div Hundredths)
      ELSE Nearest(sigma * (Millionths \div Hundredths) * (7 * passes + 6 * (pass + 1)),
                   10 * passes)

\* adaptive_sigma of pass `pass` (from 0) of `passes`: sigma_value for a
\* single pass, else sigma_value * (0.7 + 0.6 * iteration /
\* (gaussian_iterations - 1)).  sigma is in hundredths and the result in
\* millionths, the exact value to the nearest millionth (the double of the
\* code is within 1e-15 of the exact value).
AdaptiveSigma(sigma, pass, passes) ==
    IF passes = 1
      THEN sigma * (Millionths \div Hundredths)
      ELSE Nearest(sigma * (Millionths \div Hundredths)
                         * (7 * (passes - 1) + 6 * pass),
                   10 * (passes - 1))

\* run_reconstruction reads the spin boxes after the scaling call
ReadParameters ==
    /\ scaling_call = "returned"
    /\ sigma_value = None
    /\ sigma_value' = Some(spinSigma)
    /\ gaussian_iterations' \in GaussianIterations
    /\ UNCHANGED <<adaptive_sigmas, smoothing_left>>
    /\ UNCHANGED <<RunReconstructionVars, PercentileVars, DialogVars, scaling_call, dsm_layer,
                   spinSigma, spinKernelRadius, spinBufferDistance, spinFillDistance,
                   reply, scaling_info, buffer_distance_pixels>>

\* One pass of the loop: its adaptive sigma is computed and handed to the
\* filter.  The pass ends the loop with break when the filter and the copy
\* both fail or the output is not found (left), else the next pass follows.
SmoothingPass ==
    /\ sigma_value # None
    /\ ~smoothing_left
    /\ Len(adaptive_sigmas) < gaussian_iterations
    /\ adaptive_sigmas' =
          Append(adaptive_sigmas,
                 AdaptiveSigma(Val(sigma_value), Len(adaptive_sigmas),
                               gaussian_iterations))
    /\ \E left \in BOOLEAN : smoothing_left' = left
    /\ UNCHANGED <<sigma_value, gaussian_iterations>>
    /\ UNCHANGED <<RunReconstructionVars, PercentileVars, DialogVars, scaling_call, dsm_layer,
                   spinSigma, spinKernelRadius, spinBufferDistance, spinFillDistance,
                   reply, scaling_info, buffer_distance_pixels>>

\* a call of get_pixel_size_and_scale_parameters on one DSM, and the
\* conversion of the buffer distance that run_reconstruction makes with its
\* result
ScalingInit ==
    /\ InitWith({[buffer |-> 0, iterations |-> 1, filter_widgets |-> FALSE]})
    /\ files = EmptyDir
    /\ NoCall
    /\ scaling_call = "called"
    /\ dsm_layer \in DsmLayers
    /\ spinSigma \in SigmaValues
    /\ spinKernelRadius \in KernelRadiusValues
    /\ spinBufferDistance \in BufferDistanceValues
    /\ spinFillDistance \in FillDistanceValues
    /\ reply = "none"
    /\ scaling_info = NoScalingInfo
    /\ buffer_distance_pixels = None
    /\ sigma_value = None
    /\ gaussian_iterations = 0
    /\ adaptive_sigmas = <<>>
    /\ smoothing_left = FALSE
    /\ NoDialog

ScalingNext ==
    \/ GetPixelSizeAndScaleParameters
    \/ AutoScaleQuestion
    \/ ConvertBufferDistance
    \/ ReadParameters
    \/ SmoothingPass

ScalingSpec == ScalingInit /\ [][ScalingNext]_vars

-----------------------------------------------------------------------------
(* The dialog: buttonRun, the event loop and run_reconstruction *)

\* largest number of clicks on buttonRun that are waiting or running at a time
MaxClicks == 2

\* the calls of update_progress of one run of one filter pass: the start,
\* the pass, the nine stages that follow and the four calls of the end
ProgressCalls == 15

\* an invocation of run_reconstruction on the call stack: the calls of
\* update_progress it has made, and whether it stands inside the
\* QCoreApplication.processEvents() of the last one
Invocation(calls, in_events) == [calls |-> calls, in_events |-> in_events]

Top == active_runs[Len(active_runs)]
Pop == SubSeq(active_runs, 1, Len(active_runs) - 1)
ReplaceTop(f) == [active_runs EXCEPT ![Len(active_runs)] = f]

DialogUnchanged == UNCHANGED <<RunReconstructionVars, PercentileVars, ScalingVars>>

\* BareEarthReconstructor.run: the dialog is created once and shown
Run ==
    /\ ~dlg
    /\ dlg' = TRUE
    /\ UNCHANGED <<pending_clicks, active_runs>>
    /\ DialogUnchanged

\* The user clicks buttonRun.  The dialog is shown with show(), not modal,
\* and the button stays enabled while a run is active, so the click joins
\* the event queue at any time.
ClickRun ==
    /\ dlg
    /\ pending_clicks + Len(active_runs) < MaxClicks
    /\ pending_clicks' = pending_clicks + 1
    /\ UNCHANGED <<dlg, active_runs>>
    /\ DialogUnchanged

\* The event loop delivers a click: buttonRun.clicked is connected to
\* run_reconstruction, which is called there and then.  The loop that
\* delivers is the application's when no run is active, or the
\* processEvents() of the update_progress the innermost run stands in.
DeliverClick ==
    /\ pending_clicks > 0
    /\ IF active_runs = <<>> THEN TRUE ELSE Top.in_events
    /\ pending_clicks' = pending_clicks - 1
    /\ active_runs' = Append(active_runs, Invocation(0, FALSE))
    /\ UNCHANGED dlg
    /\ DialogUnchanged

\* the innermost run works up to its next call of update_progress, which
\* sets the bar and calls QCoreApplication.processEvents()
UpdateProgress ==
    /\ active_runs # <<>>
    /\ ~Top.in_events
    /\ Top.calls < ProgressCalls
    /\ active_runs' = ReplaceTop(Invocation(Top.calls + 1, TRUE))
    /\ UNCHANGED <<dlg, pending_clicks>>
    /\ DialogUnchanged

\* processEvents() returns once the queue is empty
EventsProcessed ==
    /\ active_runs # <<>>
    /\ Top.in_events
    /\ pending_clicks = 0
    /\ active_runs' = ReplaceTop(Invocation(Top.calls, FALSE))
    /\ UNCHANGED <<dlg, pending_clicks>>
    /\ DialogUnchanged

\* the innermost run returns: at its end, or earlier through one of its
\* return statements or its outer except
ReturnFromRun ==
    /\ active_runs # <<>>
    /\ ~Top.in_events
    /\ active_runs' = Pop
    /\ UNCHANGED <<dlg, pending_clicks>>
    /\ DialogUnchanged

DialogInit ==
    /\ InitWith({[buffer |-> 0, iterations |-> 1, filter_widgets |-> FALSE]})
    /\ files = EmptyDir
    /\ NoCall
    /\ NoScaling
    /\ NoDialog

DialogNext ==
    \/ Run
    \/ ClickRun
    \/ DeliverClick
    \/ UpdateProgress
    \/ EventsProcessed
    \/ ReturnFromRun

DialogSpec == DialogInit /\ [][DialogNext]_vars

-----------------------------------------------------------------------------
(* Properties of the run *)

LastStage == IF stages = <<>> THEN "" ELSE stages[Len(stages)]
Started(s) == \E i \in DOMAIN stages : stages[i] = s
LastAttempt == attempts[Len(attempts)]

C2_ResidualsDisabledWhenAllStrategiesFail ==
    residual_all_failed =>
        /\ ~use_residuals
        /\ residual_layer = NoLayer
        /\ (calc_expression.rule # "none" => ~calc_expression.residual)

GapFillClaimedOrder == <<"enhanced", "grass_fillnulls", "simple", "masked_copy">>

\* C3 (as stated): the gap-fill candidates are attempted in the fixed order
\* Enhanced GDAL, GRASS r.fillnulls, Simple GDAL, terminal copy; after a
\* failed Enhanced GDAL the GRASS method comes before Simple GDAL.
C3_FixedGapFillOrder ==
    LastStage = "gapfill" =>
        \A i \in DOMAIN attempts : attempts[i].m = GapFillClaimedOrder[i]

\* C3 (amended): the gap-fill chain starts with the method selected in the
\* configuration; a failed Enhanced GDAL or GRASS r.fillnulls is followed by
\* Simple GDAL, a failed Simple GDAL by the terminal copy; a candidate is
\* attempted only after the one before it failed, a candidate that raised is
\* always followed by the next one, and GRASS r.fillnulls is attempted only
\* as the selected method, never after Enhanced GDAL.
C3_GapFillChain ==
    LastStage = "gapfill" =>
        /\ Len(attempts) >= 1
        /\ attempts[1].m = cfg.method
        /\ \A i \in 2..Len(attempts) :
             /\ attempts[i - 1].r # "ok"
             /\ attempts[i - 1].m # "masked_copy"
             /\ attempts[i].m = IF attempts[i - 1].m = "simple"
                                  THEN "masked_copy" ELSE "simple"
        /\ \A i \in DOMAIN attempts : attempts[i].m = "grass_fillnulls" => i = 1
        /\ (LastAttempt.r = "raise" => LastAttempt.m = "masked_copy")

\* a run in which Enhanced GDAL and Simple GDAL failed and the terminal copy
\* produced the surface
C3_ChainReachesTerminalCopy ==
    /\ result = "completed"
    /\ Len(attempts) = 3
    /\ attempts[1].m = "enhanced"
    /\ attempts[2].m = "simple"
    /\ attempts[3].m = "masked_copy"

\* C4: the gap-fill method handed to the report as actually used names the
\* candidate that produced the reconstructed surface; when that is the
\* terminal copy it differs from the requested method.
C4_RecordedMethodIsProducer ==
    report.written =>
        /\ report.interpolation_method = LastAttempt.m
        /\ (LastAttempt.m = "masked_copy" =>
               report.interpolation_method # report.original_interpolation_method)

\* C5: texture analysis enabled in the configuration and no texture channel
\* available (both texture methods failed): the classification expression
\* is the slope-proxy 3-class rule.
C5_SlopeProxyWhenTextureFails ==
    ( /\ calc_expression.rule # "none"
      /\ cfg.texture
      /\ texture_variance = NoLayer
      /\ texture_entropy = NoLayer )
        => calc_expression.rule = "proxy"

\* C6: texture analysis disabled in the configuration: no texture method is
\* attempted and the label grid holds only 0 and 1.
C6_NoTextureWhenDisabled ==
    (Started("texture") /\ ~cfg.texture) =>
        /\ (LastStage = "texture" => attempts = <<>>)
        /\ \A i \in DOMAIN labels : labels[i] \in {0, 1, NoData}

FixedThresholdsUsed(e) ==
    ThresholdsUsed(e.rule, e.residual, Some(FixedThresholds.slope),
                   Some(FixedThresholds.curvature), Some(FixedThresholds.residual),
                   Some(FixedThresholds.variance), Some(FixedThresholds.entropy))

\* C7: percentile mode, and a percentile call of a required channel returned
\* None: the thresholds are the fixed ones, the threshold set is marked
\* fixed_fallback and the classification expression is built from the fixed
\* thresholds; no classification expression holds a None threshold.
C7_AbsentPercentileFallsBackToFixed ==
    /\ percentile_absent =>
          /\ stats_results.threshold_method = "fixed_fallback"
          /\ slope_threshold = Some(FixedThresholds.slope)
          /\ curvature_threshold = Some(FixedThresholds.curvature)
          /\ residual_threshold = Some(FixedThresholds.residual)
          /\ stats_results.variance_threshold = Some(FixedThresholds.variance)
          /\ stats_results.entropy_threshold = Some(FixedThresholds.entropy)
          /\ (calc_expression.rule # "none" =>
                 calc_expression.thresholds = FixedThresholdsUsed(calc_expression))
    /\ calc_expression.rule # "none" => ~HasNone(calc_expression.thresholds)

\* a label grid classified with the fixed thresholds after a percentile call
\* returned None
C7_ClassifiedAfterAbsentPercentile ==
    /\ percentile_absent
    /\ cfg.percentile
    /\ labels # <<>>

ChainStages ==
    {"smoothing", "residual", "curvature", "texture", "buffering", "gapfill"}

\* the last candidate of the chains that end without a copy
LastCandidates ==
    {"gdal:rastercalculator(temp)", "sagang:slopeaspectcurvature",
     "calculate_texture_alternative"}

\* the output of candidate m exists when its stage has ended
ArtifactExists(m) ==
    CASE m = "sagang:gaussianfilter" ->
           isfile(files, FilterTarget(iteration - 1, cfg.iterations))
      [] m \in {"gdal:rastercalculator", "QgsRasterCalculator",
                "gdal:rastercalculator(temp)"} -> isfile(files, ResidualFile)
      [] m = "qgis:profilecurvature" -> curvature_layer = "memory:curvature"
      [] m \in {"grass7:r.slope.aspect", "sagang:slopeaspectcurvature"} ->
           isfile(files, CurvatureFile)
      [] m = "grass7:r.texture" -> isfile(files, GrassTextureFile)
      [] m = "calculate_texture_alternative" -> isfile(files, GdalTextureFile)
      [] m \in {"grass7:r.buffer", "gdal:proximity", "copy"} ->
           isfile(files, BufferedFile)
      [] OTHER -> isfile(files, ReconstructedFile)

\* C8: in the stages with a fallback chain a candidate that completed
\* without its output artifact is treated as failed: it is not the last
\* candidate attempted, unless the chain has no further candidate.
C8_CandidateWithoutArtifactFails ==
    (LastStage \in ChainStages /\ attempts # <<>>) =>
        ( (LastAttempt.r = "nofile" /\ ~ArtifactExists(LastAttempt.m))
             => LastAttempt.m \in LastCandidates )

StageOrder ==
    <<"smoothing", "residual", "slope", "curvature", "texture", "thresholds",
      "classification", "buffering", "masking", "gapfill">>

\* C9: the stages of a run start in the fixed order smoothing, residual,
\* slope, curvature, texture, threshold analysis, classification, buffering,
\* masking, gap-fill, each after the one before it, and none twice.
C9_FixedStageOrder ==
    /\ Len(stages) <= Len(StageOrder)
    /\ \A i \in DOMAIN stages : stages[i] = StageOrder[i]
    /\ (pc \notin {"start", "done", "report"} =>
          pc = StageOrder[Len(stages) + (IF pc = "smoothing" /\ iteration > 0
                                            THEN 0 ELSE 1)])

\* a completed run: all ten stages ran
C9_AllStagesRan ==
    /\ result = "completed"
    /\ stages = StageOrder

CurvatureOrder ==
    <<"qgis:profilecurvature", "grass7:r.slope.aspect", "sagang:slopeaspectcurvature">>

\* C10: the curvature methods are attempted in the order QGIS profile
\* curvature, GRASS r.slope.aspect, SAGA slope-aspect-curvature, each only
\* after the earlier ones failed; when all three fail the run ends at once:
\* no later stage is executed and no reconstructed surface is written.
C10_CurvatureChainAndFatalExit ==
    /\ LastStage = "curvature" =>
          /\ Len(attempts) \in 1..3
          /\ \A i \in DOMAIN attempts : attempts[i].m = CurvatureOrder[i]
          /\ \A i \in 2..Len(attempts) : attempts[i - 1].r # "ok"
          /\ ( ( /\ Len(attempts) = 3
                 /\ (attempts[3].r = "raise" \/ ~isfile(files, CurvatureFile)) )
                  => abort_cause = "no_curvature" )
    /\ abort_cause = "no_curvature" =>
          /\ result = "aborted"
          /\ pc = "done"
          /\ stages = <<"smoothing", "residual", "slope", "curvature">>
          /\ Len(attempts) = 3
          /\ \A i \in DOMAIN attempts : attempts[i].r # "ok"
          /\ files[ReconstructedFile] \in {Absent, Stale}
          /\ ~report.written

\* a run ended by the failure of all three curvature methods
C10_AllCurvatureMethodsFailed ==
    /\ abort_cause = "no_curvature"
    /\ Len(attempts) = 3
    /\ attempts[1].r = "raise"
    /\ attempts[2].r = "raise"
    /\ attempts[3].r = "raise"

\* every gap-fill method of the run failed: the final fallback was reached
AllFillMethodsFailed ==
    /\ Started("gapfill")
    /\ attempts # <<>>
    /\ LastAttempt.m = "masked_copy"

Selected(label, anthro, veg) ==
    IF anthro /\ veg THEN label > 0
    ELSE IF anthro THEN label = 2
    ELSE IF veg THEN label = 1
    ELSE FALSE

\* the selection mask of a label grid: 1 at the selected labels, 0 at the
\* others, NoData where the label grid holds NoData
SelectionMask(lab, anthro, veg) ==
    [i \in DOMAIN lab |->
        IF lab[i] = NoData THEN NoData ELSE Bit(Selected(lab[i], anthro, veg))]

\* the buffering stage ran without a buffer distance
BufferingSkipped == LastStage = "buffering" /\ cfg.buffer = 0

\* C12: with a buffer distance of 0 no buffer method is invoked, and the
\* buffered mask the stage writes is, pixel for pixel, the selection mask of
\* the label grid (3-class mode) or the label grid itself (binary mode).
C12_NoBufferKeepsSelectionMask ==
    BufferingSkipped =>
        /\ attempts = <<>>
        /\ files[BufferedFile] \notin {"grass7:r.buffer", "gdal:proximity"}
        /\ files[BufferedFile] \in {"selection", "label_copy"} =>
              pixels[BufferedFile] =
                  IF use_texture
                    THEN SelectionMask(labels, cfg.filter_anthropogenic,
                                       cfg.filter_vegetation)
                    ELSE labels

\* a 3-class run without buffer distance that selects the vegetation class
\* only, on a label grid that holds all three classes
C12_VegetationSelectedWithoutBuffer ==
    /\ BufferingSkipped
    /\ pc = "masking"
    /\ use_texture
    /\ ~cfg.filter_anthropogenic
    /\ cfg.filter_vegetation
    /\ files[BufferedFile] = "selection"
    /\ \E i \in DOMAIN labels : labels[i] = 2 /\ pixels[BufferedFile][i] = 0
    /\ \E i \in DOMAIN labels : labels[i] = 1 /\ pixels[BufferedFile][i] = 1
    /\ \E i \in DOMAIN labels : labels[i] = 0 /\ pixels[BufferedFile][i] = 0

\* a binary run without buffer distance
C12_BinaryWithoutBuffer ==
    /\ BufferingSkipped
    /\ pc = "masking"
    /\ ~use_texture
    /\ \E i \in DOMAIN labels : pixels[BufferedFile][i] = 1

\* C13: an artifact a stage has produced is not written again by a later
\* stage: the masking stage leaves the buffered mask as the buffering stage
\* wrote it, and the masked surface it writes is the smoothed surface under
\* that mask.
C13_BufferedMaskWrittenOnce ==
    [][(pc = "masking" /\ pixels[BufferedFile] # Unwritten) =>
          /\ files'[BufferedFile] = files[BufferedFile]
          /\ pixels'[BufferedFile] = pixels[BufferedFile]
          /\ files'[MaskedFile] = "QgsRasterCalculator" =>
                pixels'[MaskedFile] =
                    ApplyMask(use_texture, pixels[BufferedFile], Smoothed)]_vars

\* both filter checkboxes are cleared
FiltersOff ==
    /\ Started("buffering")
    /\ ~cfg.filter_anthropogenic
    /\ ~cfg.filter_vegetation

Mapped(label, anthro, veg) == Bit(Selected(label, anthro, veg))

\* C15: in 3-class mode the selection mask is label > 0 for both flags,
\* label > 1 for anthropogenic only, 0 < label <= 1 for vegetation only and
\* empty for neither, and the mask the no-buffer path writes, the mask
\* extracted ahead of the buffer methods and the mask the masking stage
\* writes are all that selection of the label grid.
C15_OneSelectionMapping ==
    /\ \A label \in {0, 1, 2}, anthro \in BOOLEAN, veg \in BOOLEAN :
          /\ EvalFormula(NoBufferFormula(anthro, veg), label)
                = Mapped(label, anthro, veg)
          /\ EvalFormula(ExtractionFormula(anthro, veg), label)
                = Mapped(label, anthro, veg)
          /\ EvalFormula(MaskingFormula(anthro, veg), label)
                = Mapped(label, anthro, veg)
    /\ (use_texture /\ Started("buffering")) =>
          LET mask == SelectionMask(labels, cfg.filter_anthropogenic,
                                    cfg.filter_vegetation)
          IN  /\ (BufferingSkipped /\ files[BufferedFile] = "selection")
                    => pixels[BufferedFile] = mask
              /\ files[SelectedFile] = "selection"
                    => pixels[SelectedFile] = mask
              /\ files[BufferedFile] = "masking:selection"
                    => pixels[BufferedFile] = mask

\* a 3-class run that selects the anthropogenic class only, on a label grid
\* with all three classes, through the no-buffer path and the masking stage
C15_AnthropogenicSelectedTwice ==
    /\ use_texture
    /\ LastStage = "masking"
    /\ cfg.buffer = 0
    /\ cfg.filter_anthropogenic
    /\ ~cfg.filter_vegetation
    /\ files[BufferedFile] = "masking:selection"
    /\ \E i \in DOMAIN labels : labels[i] = 2 /\ pixels[BufferedFile][i] = 1
    /\ \E i \in DOMAIN labels : labels[i] = 1 /\ pixels[BufferedFile][i] = 0
    /\ \E i \in DOMAIN labels : labels[i] = 0 /\ pixels[BufferedFile][i] = 0

\* the channels a classification rule is evaluated over
ChannelsOfRule(e) ==
    CASE e.rule = "texture" /\ e.residual ->
             {"slope", "curvature", "residual", "variance", "entropy"}
      [] e.rule = "texture" /\ ~e.residual ->
             {"slope", "curvature", "variance", "entropy"}
      [] e.rule # "texture" /\ e.residual -> {"slope", "curvature", "residual"}
      [] OTHER -> {"slope", "curvature"}

\* the classes of a rule: 0, 1 in binary mode, 0, 1, 2 in 3-class mode
ClassesOfRule(e) == IF e.rule = "binary" THEN {0, 1} ELSE {0, 1, 2}

\* the slope-proxy expression built from the fixed thresholds
ProxyExpression(res) ==
    [ rule       |-> "proxy",
      residual   |-> res,
      thresholds |-> FixedThresholdsUsed([rule |-> "proxy", residual |-> res]) ]

\* the label an expression gives a pixel is a class of its rule, or NoData
\* where a channel of the rule holds NoData
ClassOrNoData(e, px, label) ==
    IF \E ch \in ChannelsOfRule(e) : px[ch] = NoData
      THEN label = NoData
      ELSE label \in ClassesOfRule(e)

ValidPixel(px) ==
    \A ch \in ChannelsOfRule(calc_expression) : px[ch] # NoData

\* the residual term is part of the rule in use
ResidualsEnabled == use_residuals /\ residual_layer # NoLayer

\* slope, |curvature| and, when residuals are enabled, |residual| of the pixel
\* are within the thresholds of the run
WithinBounds(px) ==
    /\ px.slope <= Val(slope_threshold)
    /\ Abs(px.curvature) <= Val(curvature_threshold)
    /\ (ResidualsEnabled => Abs(px.residual) <= Val(residual_threshold))

\* the texture of the pixel is above a texture threshold of the run
HighTexture(px) ==
    \/ px.variance > Val(variance_threshold)
    \/ px.entropy > Val(entropy_threshold)

\* C17: under the 3-class rule with texture channels a valid pixel is
\* Vegetation (1) iff its texture is high and slope, |curvature| and (when
\* enabled) |residual| are within bounds, Anthropogenic (2) iff one of the
\* three exceeds its bound, and Natural (0) otherwise; the cases exclude one
\* another and cover every valid pixel. The grid is inspected as the
\* classification stage leaves it.
C17_TextureRuleCases ==
    (/\ LastStage = "classification"
     /\ labels # Unwritten
     /\ calc_expression.rule = "texture") =>
        \A i \in DOMAIN Grid :
            ValidPixel(Grid[i]) =>
                LET vegetation    == HighTexture(Grid[i]) /\ WithinBounds(Grid[i])
                    anthropogenic == ~WithinBounds(Grid[i])
                IN  /\ labels[i] = 1 <=> vegetation
                    /\ labels[i] = 2 <=> anthropogenic
                    /\ labels[i] = 0 <=> (~vegetation /\ ~anthropogenic)
                    /\ ~(vegetation /\ anthropogenic)
                    /\ labels[i] \in {0, 1, 2}

\* a label grid of the texture rule with a vegetation pixel that exceeds one
\* texture threshold only, an anthropogenic pixel of high texture and a
\* natural pixel
C17_AllThreeCases ==
    /\ labels # Unwritten
    /\ calc_expression.rule = "texture"
    /\ ResidualsEnabled
    /\ \E i \in DOMAIN Grid :
          /\ labels[i] = 1
          /\ Grid[i].variance > Val(variance_threshold)
          /\ Grid[i].entropy <= Val(entropy_threshold)
    /\ \E i \in DOMAIN Grid :
          /\ labels[i] = 2
          /\ ValidPixel(Grid[i]) /\ HighTexture(Grid[i])
    /\ \E i \in DOMAIN Grid :
          /\ labels[i] = 2
          /\ Abs(Grid[i].residual) > Val(residual_threshold)
          /\ Grid[i].slope <= Val(slope_threshold)
    /\ \E i \in DOMAIN Grid : labels[i] = 0

\* C18: in binary mode a valid pixel is Anthropogenic (1) iff slope,
\* |curvature| or |residual| exceeds its bound, and Natural (0) otherwise;
\* the residual is compared, and bound to the calculator, exactly when
\* residual analysis is enabled and a residual channel exists. The grid is
\* inspected as the classification stage leaves it.
C18_BinaryRuleCases ==
    (/\ LastStage = "classification"
     /\ labels # Unwritten
     /\ calc_expression.rule = "binary") =>
        /\ calc_expression.residual <=> ResidualsEnabled
        /\ "residual" \in BoundChannels("binary", calc_expression.residual)
              <=> ResidualsEnabled
        /\ \A i \in DOMAIN Grid :
              ValidPixel(Grid[i]) =>
                  LET exceeds ==
                          \/ Grid[i].slope > Val(slope_threshold)
                          \/ Abs(Grid[i].curvature) > Val(curvature_threshold)
                          \/ /\ ResidualsEnabled
                             /\ Abs(Grid[i].residual) > Val(residual_threshold)
                  IN  labels[i] = IF exceeds THEN 1 ELSE 0

\* a binary label grid with a pixel that only its residual makes
\* anthropogenic, and the same grid of channels classified without residuals
C18_ResidualDecides ==
    /\ labels # Unwritten
    /\ calc_expression.rule = "binary"
    /\ \E i \in DOMAIN Grid :
          /\ Grid[i].slope <= Val(slope_threshold)
          /\ Abs(Grid[i].curvature) <= Val(curvature_threshold)
          /\ Grid[i].residual # NoData
          /\ Abs(Grid[i].residual) > Val(residual_threshold)
          /\ ResidualsEnabled
          /\ labels[i] = 1

\* a binary label grid classified without the residual term
C18_BinaryWithoutResiduals ==
    /\ labels # Unwritten
    /\ calc_expression.rule = "binary"
    /\ ~ResidualsEnabled
    /\ \E i \in DOMAIN Grid :
          /\ Grid[i].residual # NoData
          /\ Abs(Grid[i].residual) > Val(residual_threshold)
          /\ labels[i] = 0

\* a readable raster whose pixels all hold valid values
HoldsValidValues(r) ==
    r.valid /\ r.read = "ok" /\ r.content \in {"arranged", "columns"}

\* C19: for a raster of more than 1M and at most 5M pixels that holds valid
\* values, the chunked strategy has sampled every tile when the call
\* returns, has collected values, and returns a percentile (not None).
C19_ChunkedReturnsPercentile ==
    (/\ call = "returned"
     /\ strategy = "chunked"
     /\ HoldsValidValues(raster_layer)) =>
        /\ chunk = Chunks(raster_layer)
        /\ values # EmptyBag
        /\ percentile_value # None

\* C20: for a raster of at most 1M pixels that holds each of 1..100 once, in
\* any arrangement, the 90th percentile returned is 90 when every pixel was
\* sampled and within 10 of 90 otherwise.
C20_NinetiethPercentileNearNinety ==
    (/\ call = "returned"
     /\ raster_layer \in OneToHundredRasters
     /\ percentile = 90) =>
        /\ percentile_value # None
        /\ IF BagCardinality(values) = raster_layer.width * raster_layer.height
             THEN Val(percentile_value) = 90 * Hundredths
             ELSE Abs(Val(percentile_value) - 90 * Hundredths) <= 10 * Hundredths

\* a layer no sample of which is valid: every pixel holds NoData or NaN, or
\* no read delivers
NoValidSample(r) ==
    /\ r # NoRaster
    /\ r.valid
    /\ (r.content \in {"nodata", "nan"} \/ r.read # "ok")

\* C21: when no sampled value of the layer is valid, the call returns None
\* and no exception leaves calculate_raster_percentiles; until it returns it
\* has collected no value.
C21_NoValidValueReturnsNone ==
    NoValidSample(raster_layer) =>
        /\ values = EmptyBag
        /\ call # "raised"
        /\ percentile_value = None

\* a call that took samples of a raster of NoData, found none valid and
\* returned
C21_ReturnedAfterInvalidSamples ==
    /\ call = "returned"
    /\ NoValidSample(raster_layer)
    /\ raster_layer.content = "nodata"
    /\ samples_taken > 0
    /\ percentile_value = None

\* width * height of the raster of the call
TotalPixels == raster_layer.width * raster_layer.height

C22_ChunkedAtFiveMillion ==
    /\ call = "returned"
    /\ TotalPixels = 5000000
    /\ strategy = "chunked"

\* the percentile the call computes from the collected values for p
PercentileOf(p) ==
    IF numpy THEN NumpyPercentile(values, p) ELSE FallbackPercentile(values, p)

\* C23: with at least two valid values collected, the percentile the call
\* returned for p is at most the percentile of the same values for every
\* larger p of [0, 100], and at least that for every smaller p, with numpy
\* and on the nearest-rank fallback.
C23_PercentileMonotone ==
    (call = "returned" /\ percentile_value # None
        /\ BagCardinality(values) >= 2) =>
        \A p \in Percentiles :
            /\ percentile <= p => Val(percentile_value) <= PercentileOf(p)
            /\ p <= percentile => PercentileOf(p) <= Val(percentile_value)

\* the fallback returned the median of values that are not all equal, below
\* their 90th percentile
C23_FallbackMedianBelowNinetieth ==
    /\ call = "returned"
    /\ ~numpy
    /\ percentile = 50
    /\ percentile_value # None
    /\ BagCardinality(values) >= 2
    /\ Val(percentile_value) < PercentileOf(90)

\* numpy returned the median of values that are not all equal, below their
\* 90th percentile
C23_NumpyMedianBelowNinetieth ==
    /\ call = "returned"
    /\ numpy
    /\ percentile = 50
    /\ percentile_value # None
    /\ BagCardinality(values) >= 2
    /\ Val(percentile_value) < PercentileOf(90)

\* C24: when classification runs, in percentile, fixed and fixed-fallback
\* mode alike, the curvature threshold it applies is the larger of the
\* absolute values of the recorded positive and negative curvature
\* thresholds; in percentile mode with residuals the residual threshold is
\* the larger of the absolute values of the two residual percentiles.
C24_SymmetricThresholds ==
    Started("classification") =>
        /\ stats_results.threshold_method \in {"percentile", "fixed", "fixed_fallback"}
        /\ stats_results.curvature_pos_threshold # None
        /\ stats_results.curvature_neg_threshold # None
        /\ curvature_threshold =
              Some(Max(Abs(Val(stats_results.curvature_pos_threshold)),
                       Abs(Val(stats_results.curvature_neg_threshold))))
        /\ (stats_results.threshold_method = "percentile"
                /\ stats_results.use_residuals) =>
              /\ residual_threshold = stats_results.residual_threshold
              /\ residual_threshold =
                    Some(Max(Abs(PercentileValues.residual_pos),
                             Abs(PercentileValues.residual_neg)))

\* classification ran in percentile mode with residuals: the negative
\* percentiles decide both symmetric thresholds
C24_PercentileModeWithResiduals ==
    /\ Started("classification")
    /\ stats_results.threshold_method = "percentile"
    /\ stats_results.use_residuals
    /\ curvature_threshold = Some(2)
    /\ stats_results.curvature_pos_threshold = Some(1)
    /\ residual_threshold = Some(1)

\* classification ran with the spin-box thresholds after the analysis failed
C24_FixedFallbackMode ==
    /\ Started("classification")
    /\ stats_results.threshold_method = "fixed_fallback"
    /\ curvature_threshold = Some(FixedThresholds.curvature)

\* classification ran in fixed mode
C24_FixedMode ==
    /\ Started("classification")
    /\ stats_results.threshold_method = "fixed"
    /\ curvature_threshold = Some(FixedThresholds.curvature)

\* C25: for a pixel size of 0.1 to 50 map units the scaled sigma the call
\* computes lies in 0.5 .. 5.0, the scaled kernel radius in 1 .. 15 and
\* the scaled fill distance in 1 .. 1000.
C25_ScaledValuesWithinBounds ==
    (/\ scaling_call \in {"asked", "returned"}
     /\ dsm_layer.readable
     /\ PixelSize(dsm_layer) >= 100
     /\ PixelSize(dsm_layer) <= 50000) =>
        /\ scaling_info.pixel_size = PixelSize(dsm_layer)
        /\ scaling_info.suggested_sigma >= 50
        /\ scaling_info.suggested_sigma <= 500
        /\ scaling_info.suggested_kernel_radius >= 1
        /\ scaling_info.suggested_kernel_radius <= 15
        /\ scaling_info.suggested_fill_distance >= 1
        /\ scaling_info.suggested_fill_distance <= 1000

\* a DSM of 0.1 units per pixel: every scaled value sits on its upper bound
C25_FinestPixelSize ==
    /\ scaling_call = "returned"
    /\ PixelSize(dsm_layer) = 100
    /\ scaling_info.suggested_sigma = 500
    /\ scaling_info.suggested_kernel_radius = 15
    /\ scaling_info.suggested_fill_distance = 1000

\* a DSM of 50 units per pixel: sigma and kernel radius sit on their lower
\* bounds
C25_CoarsestPixelSize ==
    /\ scaling_call = "returned"
    /\ PixelSize(dsm_layer) = 50000
    /\ scaling_info.suggested_sigma = 50
    /\ scaling_info.suggested_kernel_radius = 1
    /\ scaling_info.suggested_fill_distance = 2

\* C26: no step of the call changes the buffer distance of the dialog,
\* whatever the answer to the question, and the buffer distance the call
\* returns is that of the dialog; 0 stays 0.
C26_BufferDistanceUntouched ==
    [][/\ spinBufferDistance' = spinBufferDistance
       /\ scaling_call' = "returned" =>
             scaling_info'.suggested_buffer_distance = spinBufferDistance]_vars

\* the user accepted the scaled values of a 0.1-unit DSM with a buffer
\* distance of 3.0: sigma and fill distance were rewritten
C26_AcceptedWithBuffer ==
    /\ scaling_call = "returned"
    /\ reply = "Yes"
    /\ PixelSize(dsm_layer) = 100
    /\ spinSigma = 500
    /\ spinFillDistance = 1000
    /\ spinBufferDistance = 300

\* the user accepted the scaled values with a buffer distance of 0
C26_AcceptedWithoutBuffer ==
    /\ scaling_call = "returned"
    /\ reply = "Yes"
    /\ spinSigma = scaling_info.suggested_sigma
    /\ spinBufferDistance = 0

\* the user declined
C26_Rejected ==
    /\ scaling_call = "returned"
    /\ reply = "No"
    /\ spinBufferDistance = 300

\* the buffering stage ran with a buffer distance above 0
BufferingAttempted == LastStage = "buffering" /\ cfg.buffer > 0

C27_DistanceTransformAfterBuffer ==
    /\ BufferingAttempted
    /\ pc = "masking"
    /\ Len(attempts) = 2
    /\ attempts[1].r = "raise"
    /\ attempts[2].r = "ok"
    /\ files[BufferedFile] = "gdal:proximity"

\* a 3-class run whose selection mask could not be prepared was aborted
C27_AbortedPreparingInput ==
    /\ BufferingAttempted
    /\ use_texture
    /\ result = "aborted"
    /\ attempts = <<>>

\* the run started on a DSM whose elevation has min == max
FlatInput == "input_dsm" \in DOMAIN cfg /\ cfg.input_dsm = "flat"

\* no stage has started and nothing was written: the output directory is as
\* the run found it, no raster and no report of this run exists
NothingExecuted ==
    /\ stages = <<>>
    /\ \A a \in DOMAIN files : files[a] \in {Absent, Stale}
    /\ \A f \in DOMAIN pixels : pixels[f] = Unwritten
    /\ labels = Unwritten
    /\ report = NoReport

C28_FlatInputCompleted ==
    /\ FlatInput
    /\ cfg.band_statistics = "raised"
    /\ result = "completed"

\* the steps of the total that had finished when the last progress call was
\* made: the filter passes while smoothing lasts, after it every pass and
\* one step for each later stage
FinishedSteps ==
    IF progress.at \in {"start", "smoothing"} THEN progress.passes
    ELSE cfg.iterations + (Len(progress.stages) - 1)

\* C30 as stated: a reported step k means the first k steps have finished,
\* and the total is reported only after the gap-fill stage has completed.
C30_ReportedStepsFinished ==
    progress # NoProgress =>
        /\ FinishedSteps >= progress.step
        /\ progress.step = progress.total_steps =>
              \E i \in DOMAIN progress.stages : progress.stages[i] = "gapfill"

\* C30: every progress call stands at the head of a stage or of a filter
\* pass and reports the step that starts: a reported step k of the total
\* means the first k - 1 steps have finished; the total is reported when
\* the gap-fill stage starts, after masking, and again once it is over.
C30_ReportedStepStarts ==
    progress # NoProgress =>
        /\ progress.total_steps = cfg.iterations + 9
        /\ progress.step <= progress.total_steps
        /\ progress.at = "start" => progress.step = 0 /\ FinishedSteps = 0
        /\ progress.at \notin {"start", "report"} =>
              FinishedSteps = progress.step - 1
        /\ progress.at = "report" =>
              /\ progress.step = progress.total_steps
              /\ FinishedSteps = progress.total_steps
        /\ progress.step = progress.total_steps =>
              /\ progress.at \in {"gapfill", "report"}
              /\ \E i \in DOMAIN progress.stages : progress.stages[i] = "masking"

\* gap-fill has run its course and the last progress call is the one at its
\* head, which reported the total
C30_TotalReportedBeforeGapFill ==
    /\ pc = "report"
    /\ LastStage = "gapfill"
    /\ progress.at = "gapfill"
    /\ progress.step = progress.total_steps
    /\ FinishedSteps = progress.total_steps - 1

\* the second filter pass of two reported step 2 with one pass finished
C30_SecondPassReported ==
    /\ progress.at = "smoothing"
    /\ progress.step = 2
    /\ progress.passes = 1

\* C29: on the one dialog of the plugin at most one invocation of
\* run_reconstruction is active at any time, also when a click on buttonRun
\* is delivered while a run reports progress.
C29_AtMostOneRunActive ==
    Len(active_runs) <= 1

-----------------------------------------------------------------------------
(* Properties of the lattice stride *)

\* the least s with s * s * target >= t: ceil(sqrt(t / target))
RECURSIVE CeilSqrt(_, _, _)
CeilSqrt(t, target, s) ==
    IF s * s * target >= t THEN s ELSE CeilSqrt(t, target, s + 1)

\* C31: in the large and the small strategy the stride of the lattice is
\* max(1, ceil(sqrt(T / target_samples))) for the T = width * height pixels
\* of the raster.
C31_StrideIsCeiling ==
    sample_factor # None =>
        Val(sample_factor) = Max(1, CeilSqrt(TotalPixels, Val(target_samples), 0))

\* a raster of 10 x 10 pixels was sampled with stride 1, where the ceiling
\* of sqrt(100 / 50) is 2
C31_StrideRoundedDown ==
    /\ call = "sampled"
    /\ strategy = "small"
    /\ TotalPixels = 100
    /\ sample_factor = Some(1)
    /\ CeilSqrt(TotalPixels, Val(target_samples), 0) = 2

\* the last lattice column of the raster: the last i of range(0, width, f)
LastLatticeColumn ==
    ((raster_layer.width - 1) \div Val(sample_factor)) * Val(sample_factor)

\* C32: when a lattice strategy has sampled a raster, its outer loop has
\* entered the last lattice column of the grid: the stop at target_samples
\* never ends the scan before the grid's extent.
C32_ScanReachesLastColumn ==
    (call = "sampled" /\ sample_factor # None) =>
        Val(last_column) = LastLatticeColumn

\* a raster of 10 x 10 pixels: the scan stopped in column 4 of 0..9 with the
\* 50 samples of the target taken
C32_StoppedHalfway ==
    /\ call = "sampled"
    /\ raster_layer.width = 10
    /\ raster_layer.height = 10
    /\ sample_factor = Some(1)
    /\ samples_taken = 50
    /\ last_column = Some(4)

\* the thresholds classification applies are the ones derived from the
\* percentiles of the run
PercentileThresholdsApplied ==
    /\ stats_results.threshold_method = "percentile"
    /\ slope_threshold = Some(PercentileValues.slope)
    /\ curvature_threshold =
          Some(SymmetricThreshold(PercentileValues.curvature_pos,
                                  PercentileValues.curvature_neg))
    /\ stats_results.use_residuals =>
          residual_threshold =
              Some(SymmetricThreshold(PercentileValues.residual_pos,
                                      PercentileValues.residual_neg))

\* percentile mode, no texture layer, and every percentile call the analysis
\* made returned a value
TextureAloneFailed ==
    /\ Started("classification")
    /\ cfg.percentile
    /\ texture_variance = NoLayer
    /\ texture_entropy = NoLayer
    /\ curvature_layer \notin {NoLayer, InvalidLayer}
    /\ ~percentile_absent

\* C33: in percentile mode, when no texture layer is available and the
\* slope, curvature and residual percentiles were all computed,
\* classification applies the percentile-derived slope, curvature and
\* residual thresholds and the threshold mode is percentile, with texture
\* analysis enabled in the dialog or not.
C33_TextureFailureKeepsPercentileThresholds ==
    TextureAloneFailed => PercentileThresholdsApplied

\* texture analysis enabled, both texture methods failed, all percentiles
\* computed: classification ran with the spin-box thresholds
C33_FixedFallbackAfterTextureFailure ==
    /\ TextureAloneFailed
    /\ cfg.texture
    /\ stats_results.threshold_method = "fixed_fallback"
    /\ slope_threshold = Some(FixedThresholds.slope)

\* texture analysis disabled: the percentile thresholds are applied
C33_PercentileThresholdsWithoutTexture ==
    /\ TextureAloneFailed
    /\ ~cfg.texture
    /\ PercentileThresholdsApplied

\* round(a / b) for a >= 0, b > 0: to the nearest integer, a tie to the even
\* one
Round(a, b) ==
    LET q == a \div b
        r == a % b
    IN  IF 2 * r < b THEN q
        ELSE IF 2 * r > b THEN q + 1
        ELSE IF q % 2 = 0 THEN q ELSE q + 1

\* C34: every conversion of a distance to pixels rounds to the nearest
\* integer before it clamps: the kernel radius is
\* clamp(round(8.0 / pixel_size), 1, 15), the fill distance
\* clamp(round(100.0 / pixel_size), 1, 1000) and the buffer distance in
\* pixels clamp(round(buffer_distance / pixel_size), 1, 50).
C34_DistancesRoundedToNearest ==
    /\ (/\ scaling_call \in {"asked", "returned"}
        /\ dsm_layer.readable
        /\ PixelSize(dsm_layer) > 0) =>
          /\ scaling_info.suggested_kernel_radius =
                Clamp(1, 15, Round(target_kernel_distance, PixelSize(dsm_layer)))
          /\ scaling_info.suggested_fill_distance =
                Clamp(1, 1000, Round(target_fill_distance, PixelSize(dsm_layer)))
    /\ buffer_distance_pixels # None =>
          Val(buffer_distance_pixels) =
              Clamp(1, 50, Round(spinBufferDistance * (Thousandths \div Hundredths),
                                 scaling_info.pixel_size))

\* 2.2 units per pixel: 8.0 / 2.2 = 3.64 became a kernel radius of 3
C34_KernelRadiusTruncated ==
    /\ scaling_call = "returned"
    /\ scaling_info.pixel_size = 2200
    /\ scaling_info.suggested_kernel_radius = 3
    /\ Round(target_kernel_distance, 2200) = 4

\* 0.6 units per pixel: 100.0 / 0.6 = 166.67 became a fill distance of 166
C34_FillDistanceTruncated ==
    /\ scaling_call = "returned"
    /\ scaling_info.pixel_size = 600
    /\ scaling_info.suggested_fill_distance = 166
    /\ Round(target_fill_distance, 600) = 167

\* 1.8 units per pixel and a buffer distance of 3.0: 1.67 became 1 pixel
C34_BufferPixelsTruncated ==
    /\ scaling_info.pixel_size = 1800
    /\ spinBufferDistance = 300
    /\ buffer_distance_pixels = Some(1)
    /\ Round(3000, 1800) = 2

\* the nearest-rank index round((p / 100) * (n - 1)) kept within 0 .. n - 1
NearestRank(p, n) == Max(0, Min(Round(p * (n - 1), 100), n - 1))

\* C35: without numpy the call returns the nearest-rank value of the n valid
\* values it collected: the value at index round((p / 100) * (n - 1)),
\* kept within 0 .. n - 1, of the values in ascending order.
C35_FallbackIsNearestRank ==
    (call = "returned" /\ ~numpy /\ values # EmptyBag) =>
        percentile_value =
            Some(Hundredths * Nth(values, NearestRank(percentile,
                                                      BagCardinality(values))))

\* the 10th percentile of 50 distinct values: position 4.9, and the value
\* returned is the one at index 4, not the one at index 5
C35_TenthPercentileTruncated ==
    /\ call = "returned"
    /\ ~numpy
    /\ percentile = 10
    /\ BagCardinality(values) = 50
    /\ NearestRank(10, 50) = 5
    /\ percentile_value = Some(Hundredths * Nth(values, 4))
    /\ Nth(values, 4) # Nth(values, 5)

\* sigma_value in millionths
SigmaMillionths == Val(sigma_value) * (Millionths \div Hundredths)

\* C36: pass i (from 0) of N smoothing passes is given sigma when N = 1 and
\* sigma * (0.7 + 0.6 * i / (N - 1)) otherwise (to the nearest millionth);
\* the sigmas of the passes increase strictly, the first is 0.7 * sigma and
\* the last 1.3 * sigma, and N = 3 with sigma = 2.0 gives 1.4, 2.0, 2.6.
C36_AdaptiveSigmas ==
    /\ \A k \in DOMAIN adaptive_sigmas :
          /\ Val(sigma_value) > 0
          /\ gaussian_iterations = 1 => adaptive_sigmas[k] = SigmaMillionths
          /\ gaussian_iterations > 1 =>
                LET scaled == adaptive_sigmas[k] * 10 * (gaussian_iterations - 1)
                    exact  == SigmaMillionths
                                * (7 * (gaussian_iterations - 1) + 6 * (k - 1))
                IN  /\ 2 * Abs(scaled - exact) <= 10 * (gaussian_iterations - 1)
                    /\ k = 1 => 10 * adaptive_sigmas[k] = 7 * SigmaMillionths
                    /\ k = gaussian_iterations =>
                          10 * adaptive_sigmas[k] = 13 * SigmaMillionths
                    /\ k > 1 => adaptive_sigmas[k] > adaptive_sigmas[k - 1]
    /\ (/\ gaussian_iterations = 3
        /\ sigma_value = Some(200)
        /\ Len(adaptive_sigmas) = 3) =>
          adaptive_sigmas = <<1400000, 2000000, 2600000>>

\* three passes with a sigma of 2.0 used 1.4, 2.0 and 2.6
C36_ThreePassesOfSigmaTwo ==
    /\ gaussian_iterations = 3
    /\ sigma_value = Some(200)
    /\ adaptive_sigmas = <<1400000, 2000000, 2600000>>

\* a single pass used the sigma of the spin box
C36_SinglePass ==
    /\ gaussian_iterations = 1
    /\ sigma_value = Some(800)
    /\ adaptive_sigmas = <<8000000>>

\* four passes of an auto-scaled sigma: the steps are thirds of 0.6 * sigma
C36_FourPasses ==
    /\ gaussian_iterations = 4
    /\ reply = "Yes"
    /\ Len(adaptive_sigmas) = 4

\* a smoothing pass has just run: attempts holds its provider call and, when
\* made, its copy
PassRan == LastStage = "smoothing" /\ attempts # <<>>
ProviderFailed == attempts[1].r # "ok"
CopyMade == Len(attempts) = 2 /\ attempts[2].r = "ok"
CopyFailed == Len(attempts) = 2 /\ attempts[2].r # "ok"

\* the smoothing stage has ended in a run that went on
SmoothingEnded == Started("smoothing") /\ pc # "smoothing" /\ result # "aborted"

\* C37: a pass whose smoothing provider failed (raised or wrote nothing) has
\* copied its input to its output, and the remaining passes run; a pass
\* whose copy failed too ends the stage with the original DSM as the smoothed
\* surface; when the stage has ended the smoothed surface is the original
\* DSM or what the last pass of this run wrote (filtered or copied) to
\* filtered_dsm.tif.
C37_FailedPassCopiesItsInput ==
    /\ (PassRan /\ ProviderFailed) => (CopyMade \/ CopyFailed)
    /\ (PassRan /\ CopyMade) =>
          /\ files[FilterTarget(iteration - 1, cfg.iterations)] = "copy"
          /\ current_dsm_path = FilterTarget(iteration - 1, cfg.iterations)
          /\ iteration < cfg.iterations => pc = "smoothing"
    /\ (PassRan /\ CopyFailed) =>
          /\ pc # "smoothing"
          /\ filtered_dsm_path = InputDsm
    /\ SmoothingEnded =>
          \/ filtered_dsm_path = InputDsm
          \/ /\ filtered_dsm_path = "filtered_dsm.tif"
             /\ iteration = cfg.iterations
             /\ files["filtered_dsm.tif"] \in {"sagang:gaussianfilter", "copy"}

\* the provider of the last pass returned without writing, and the smoothed
\* surface of the run is the file an earlier run left at filtered_dsm.tif
C37_StaleOutputTakenForThePass ==
    /\ PassRan
    /\ attempts = <<[m |-> "sagang:gaussianfilter", r |-> "nofile"]>>
    /\ SmoothingEnded
    /\ filtered_dsm_path = "filtered_dsm.tif"
    /\ files["filtered_dsm.tif"] = Stale

\* the copy of the second pass failed after a first pass that filtered: the
\* smoothed surface is the original DSM, not the output of the first pass
C37_RevertedToOriginal ==
    /\ PassRan
    /\ CopyFailed
    /\ iteration = 1
    /\ files[IterFile(1)] = "sagang:gaussianfilter"
    /\ filtered_dsm_path = InputDsm

\* the class of anthropogenic pixels: 2 under a 3-class rule, 1 under the
\* binary rule
AnthropogenicClass == IF calc_expression.rule = "binary" THEN 1 ELSE 2

\* the pixels of the label grid that hold class c
ClassCount(c) == Cardinality({i \in DOMAIN labels : labels[i] = c})

\* C38: the anthropogenic pixel count handed to the report is the number of
\* pixels of the label grid whose class is anthropogenic (class 1 of a binary
\* grid, class 2 of a 3-class grid) and is at most the total pixel count.
C38_AnthropogenicPixelsCounted ==
    (report.written /\ labels # Unwritten) =>
        /\ report.anthropogenic_pixels = ClassCount(AnthropogenicClass)
        /\ report.anthropogenic_pixels <= report.total_pixels

\* a 3-class grid: the report is handed the sum of the class values, the
\* vegetation pixels counted once and the anthropogenic pixels twice
C38_ThreeClassSumReported ==
    /\ report.written
    /\ calc_expression.rule = "texture"
    /\ ClassCount(1) > 0
    /\ ClassCount(2) > 0
    /\ report.anthropogenic_pixels = ClassCount(1) + 2 * ClassCount(2)

\* a binary grid: the sum is the number of anthropogenic pixels
C38_BinaryCountReported ==
    /\ report.written
    /\ calc_expression.rule = "binary"
    /\ ClassCount(1) > 0
    /\ report.anthropogenic_pixels = ClassCount(1)

=============================================================================
